---- MODULE Spec2Model ----
(***************************************************************************)
(* Golden-ratio spiral generator (eduair94/spiral): the configuration      *)
(* store and its form handlers, the spiral mathematics, the renderers and  *)
(* the Fibonacci-square construction, as state machines.                   *)
(*                                                                         *)
(* Numbers.  The program computes with IEEE doubles; the model computes    *)
(* with integers in fixed point:                                           *)
(*   - configuration numbers (mm, turns, dpi) in hundredths      (CU)      *)
(*   - lengths of the modular application in 1e-5 mm             (LU)      *)
(*   - lengths of the single-file application (main.ts) in 1e-4 mm (MLU)   *)
(*   - dimensionless factors (phi, e^x, sqrt) in 1e-4            (Scale)   *)
(*   - angles in units of a quarter turn / 157080 (about 1e-5 rad) (HalfPi)*)
(* NaN is a reserved value; every comparison with it is false.             *)
(***************************************************************************)
EXTENDS Integers, Sequences, FiniteSets, TLC

\* ------------------------------------------------------------ arithmetic

CU == 10 * 10
LU == 1000 * 100
MLU == 10 * 1000
Scale == 10 * 1000
MaxInt == 2147483647 + 0
NaN == 0 - 2147483647

Abs(x) == IF x < 0 THEN 0 - x ELSE x
Min(a, b) == IF a <= b THEN a ELSE b
Max(a, b) == IF a >= b THEN a ELSE b
IsNaN(x) == x = NaN

\* A quotient and remainder rounded to the nearest integer.
RoundQR(qr, c) == IF 2 * qr[2] >= c THEN qr[1] + 1 ELSE qr[1]

\* a * b / c for a, b >= 0, c > 0, rounded to the nearest integer, without
\* overflowing 32 bits on the way: with a = a1 c + a0 and b = b1 c + b0 the
\* product is (a1 b1 c + a1 b0 + a0 b1) c + a0 b0; for a large c only a is split.
MulDivNat(a, b, c) ==
  RoundQR(IF b = 0 \/ a <= MaxInt \div b
          THEN <<(a * b) \div c, (a * b) % c>>
          ELSE IF c <= 46341
          THEN <<(a \div c) * (b \div c) * c + (a \div c) * (b % c) + (a % c) * (b \div c)
                   + ((a % c) * (b % c)) \div c,
                 ((a % c) * (b % c)) % c>>
          ELSE <<(a \div c) * b + ((a % c) * b) \div c, ((a % c) * b) % c>>, c)

\* The sign of a product.
Signed(m, negative) == IF negative THEN 0 - m ELSE m

\* a * b / c (c > 0) as the double product and quotient give it, rounded to
\* the nearest unit.
MulDiv(a, b, c) == Signed(MulDivNat(Abs(a), Abs(b), c), (a < 0) # (b < 0))

\* Math.sqrt on a natural number, rounded down.
RECURSIVE SqrtSearch(_, _, _)
SqrtSearch(n, lo, hi) ==
  IF hi - lo <= 1 THEN lo
  ELSE LET mid == (lo + hi) \div 2
       IN  IF mid * mid <= n THEN SqrtSearch(n, mid, hi) ELSE SqrtSearch(n, lo, mid)

ISqrt(n) == SqrtSearch(n, 0, 46341)

\* Math.ceil(a / b) for b > 0.
CeilDiv(a, b) == IF a >= 0 THEN (a + b - 1) \div b ELSE 0 - ((0 - a) \div b)

\* Math.round(a / b) for b > 0: the nearest integer, halves toward +infinity.
RoundDiv(a, b) == (2 * a + b) \div (2 * b)

\* --------------------------------------------------- constants (lib/constants.ts)

\* The golden ratio, in 1e-4.
PHI == 16180
\* Millimetres per inch, in tenths.
MM_PER_INCH == 254
\* Points generated per full turn.
DEFAULT_POINTS_PER_TURN == 720
\* Margin on each side as a fraction of the smaller paper dimension, in 1e-4.
MARGIN_PERCENT == 500

\* Math.PI / 2 and 2 * Math.PI in angle units.
HalfPi == 15708 * 10
TwoPi == 4 * HalfPi

\* GOLDEN_B = Math.log(PHI) / (Math.PI / 2), in 1e-4 per radian.
GOLDEN_B == MulDiv(4812, Scale, 15708)

\* ------------------------------------------------------ spiral mathematics

\* x * PHI and x / PHI.
MulPhi(x) == MulDiv(x, PHI, Scale)
DivPhi(x) == MulDiv(x, Scale, PHI)

\* x * Math.pow(PHI, n) for an integer n of either sign.
RECURSIVE PhiPowMul(_, _)
PhiPowMul(x, n) ==
  IF n = 0 THEN x
  ELSE PhiPowMul(MulDiv(x, IF n > 0 THEN PHI ELSE Scale, IF n > 0 THEN Scale ELSE PHI),
                 IF n > 0 THEN n - 1 ELSE n + 1)

\* e^(t ln PHI) for t in [0, 1] (in 1e-4): the series to the third power,
\* its last coefficient set so that the value at 1 is PHI.
FracPoly(t) ==
  Scale + MulDiv(t, 4812 + MulDiv(t, 1158 + MulDiv(t, 210, Scale), Scale), Scale)

\* PHI ^ (f / period) for 0 <= f < period, in 1e-4.
FracPow(f, period) == FracPoly(MulDiv(f, Scale \div 10, period \div 10))

\* x * PHI ^ (a / period): whole periods by powers of PHI, the rest by FracPow.
PhiExpMul(x, a, period) ==
  MulDiv(PhiPowMul(x, a \div period), FracPow(a % period, period), Scale)

\* The radius formula with PHI per full turn in place of PHI per quarter turn.
goldenSpiralRadiusPerTurn(theta, initialRadius) == PhiExpMul(initialRadius, theta, TwoPi)

\* r(theta) = initialRadius * e^(GOLDEN_B * theta): PHI per quarter turn.
goldenSpiralRadius(theta, initialRadius) == PhiExpMul(initialRadius, theta, HalfPi)

\* sqrt(1 + GOLDEN_B^2), in 1e-4.
SqrtFactor == ISqrt(Scale * Scale + GOLDEN_B * GOLDEN_B)

\* scaled * (e^(GOLDEN_B maxTheta) - 1)
TimesExpFactor(scaled, maxTheta) == PhiExpMul(scaled, maxTheta, HalfPi) - scaled

\* (initialRadius / GOLDEN_B) * sqrt(1 + GOLDEN_B^2) * (e^(GOLDEN_B maxTheta) - 1)
calculateArcLength(initialRadius, maxTheta) ==
  TimesExpFactor(MulDiv(MulDiv(initialRadius, Scale, GOLDEN_B), SqrtFactor, Scale), maxTheta)

\* (mm / MM_PER_INCH) * dpi; dpi in hundredths, the result in the unit of mm.
mmToPixels(mm, dpi) == MulDiv(mm, dpi, MM_PER_INCH * 10)

\* The record calculateSpiralFromPaper returns for a final radius and a
\* number of quarter turns.
SpiralOf(finalRadius, quarterTurns) ==
  [initialRadius |-> PhiPowMul(finalRadius, 0 - quarterTurns),
   finalRadius   |-> finalRadius,
   maxTheta      |-> quarterTurns * HalfPi,
   quarterTurns  |-> quarterTurns]

\* The spiral that fits the paper: lengths in LU, turns in hundredths.
calculateSpiralFromPaper(paperWidth, paperHeight, turns) ==
  SpiralOf(MulDiv(MulDiv(Min(paperWidth, paperHeight), 1, 2), Scale - 2 * MARGIN_PERCENT, Scale),
           RoundDiv(turns * 4, CU))

\* Array.prototype.sort((a, b) => a - b) on a sequence of numbers: the
\* element at index j goes to the position that counts the elements before it.
Rank(s, j) ==
  Cardinality({k \in 1..Len(s) : s[k] < s[j] \/ (s[k] = s[j] /\ k < j)}) + 1

SortAsc(s) == [i \in 1..Len(s) |-> s[CHOOSE j \in 1..Len(s) : Rank(s, j) = i]]

\* finalRadius * 1.1, the bound of the loop of generateGuideRadii.
GuideLimit(finalRadius) == MulDiv(finalRadius, 11, 10)

\* The while loop of generateGuideRadii never leaves: it is entered and
\* r *= PHI does not increase r (r is 0, or negative and decreasing).
GuideLoopDiverges(initialRadius, finalRadius) ==
  initialRadius <= GuideLimit(finalRadius) /\ initialRadius <= 0

\* The radii the while loop pushes, for a loop that leaves.
RECURSIVE GuideLoop(_, _, _)
GuideLoop(r, limit, radii) ==
  IF r <= limit THEN GuideLoop(MulPhi(r), limit, Append(radii, r)) ELSE radii

\* The tail of generateGuideRadii: finalRadius is pushed unless a radius lies
\* within one (mm) of it, then the array is sorted.
GuideFinish(radii, finalRadius, one) ==
  SortAsc(IF \E i \in 1..Len(radii) : Abs(radii[i] - finalRadius) < one
          THEN radii ELSE Append(radii, finalRadius))

generateGuideRadii(initialRadius, finalRadius) ==
  GuideFinish(GuideLoop(initialRadius, GuideLimit(finalRadius), <<>>), finalRadius, LU)

\* -------------------------------------------------- configuration (config.ts)

\* Predefined paper sizes, millimetres in hundredths.
PAPER_SIZES ==
  [A4          |-> [width |-> 297 * CU,  height |-> 210 * CU],
   A4_portrait |-> [width |-> 210 * CU,  height |-> 297 * CU],
   A3          |-> [width |-> 420 * CU,  height |-> 297 * CU],
   A3_portrait |-> [width |-> 297 * CU,  height |-> 420 * CU],
   A2          |-> [width |-> 594 * CU,  height |-> 420 * CU],
   A1          |-> [width |-> 841 * CU,  height |-> 594 * CU],
   A0          |-> [width |-> 1189 * CU, height |-> 841 * CU],
   Letter      |-> [width |-> 279 * CU,  height |-> 216 * CU],
   Legal       |-> [width |-> 356 * CU,  height |-> 216 * CU],
   Tabloid     |-> [width |-> 432 * CU,  height |-> 279 * CU],
   custom      |-> [width |-> 400 * CU,  height |-> 400 * CU]]

DEFAULT_CONFIG ==
  [paperSize            |-> "custom",
   paperWidth           |-> 1000 * CU,
   paperHeight          |-> 1000 * CU,
   margin               |-> 10 * CU,
   lineWidth            |-> 2 * CU,
   turns                |-> 7 * CU,
   dpi                  |-> 300 * CU,
   showGrid             |-> FALSE,
   gridSpacingMM        |-> 50 * CU,
   showGuideCircles     |-> TRUE,
   showGoldenRectangles |-> TRUE,
   showRadialLines      |-> TRUE]

DPI_OPTIONS == {150 * CU, 300 * CU, 600 * CU}

\* { ...base, ...partial }: the fields of partial override those of base.
Spread(base, partial) ==
  [f \in DOMAIN base \cup DOMAIN partial |->
     IF f \in DOMAIN partial THEN partial[f] ELSE base[f]]

\* ------------------------------------------------------- renderer (lib/renderer.ts)

\* a % b of JavaScript: the sign of the dividend, NaN for a zero divisor.
JsRem(a, b) ==
  IF b = 0 THEN NaN
  ELSE IF a >= 0 THEN a % Abs(b) ELSE 0 - ((0 - a) % Abs(b))

\* for (v = start; v < bound; v += step), or v <= bound when inclusive, never
\* leaves: the test holds at the start and the step does not increase v.
ForLoopDiverges(start, bound, step, inclusive) ==
  /\ ~IsNaN(start)
  /\ IF inclusive THEN start <= bound ELSE start < bound
  /\ step <= 0

\* The three loops of drawPrintGrid; one of them never leaves.
GridLoopsDiverge(gridSpacingPx, canvasWidthPx, canvasHeightPx, gridSpacingMM, maxDist) ==
  \/ ForLoopDiverges(JsRem(MulDiv(canvasWidthPx, 1, 2), gridSpacingPx),
                     canvasWidthPx, gridSpacingPx, FALSE)
  \/ ForLoopDiverges(JsRem(MulDiv(canvasHeightPx, 1, 2), gridSpacingPx),
                     canvasHeightPx, gridSpacingPx, FALSE)
  \/ ForLoopDiverges(gridSpacingMM, maxDist, gridSpacingMM, TRUE)

\* drawPrintGrid does not return.
PrintGridDiverges(canvasWidthPx, canvasHeightPx, gridSpacingMM, paperWidthMM, paperHeightMM, dpi) ==
  GridLoopsDiverge(mmToPixels(gridSpacingMM, dpi), canvasWidthPx, canvasHeightPx,
                   gridSpacingMM, MulDiv(Min(paperWidthMM, paperHeightMM), 1, 2))

\* The layers drawSpiral paints, in the order of its statements.
SpiralLayers(config) ==
  <<"background">>
  \o (IF config.showGrid THEN <<"grid">> ELSE <<>>)
  \o (IF config.showGuideCircles THEN <<"guideCircles">> ELSE <<>>)
  \o <<"spiral", "centerMark">>

\* What a call of drawSpiral leaves on the canvas and returns, or that it
\* does not return (the background is painted before any loop is entered).
DrawOutcome(config, sp, canvasWidthPx, canvasHeightPx, diverges) ==
  [returns |-> ~diverges,
   canvas  |-> [width |-> canvasWidthPx, height |-> canvasHeightPx,
                layers |-> IF diverges THEN <<"background">> ELSE SpiralLayers(config)],
   result  |-> [pathLength    |-> calculateArcLength(sp.initialRadius, sp.maxTheta),
                initialRadius |-> sp.initialRadius,
                finalRadius   |-> sp.finalRadius]]

\* The body of drawSpiral once the spiral and the canvas size are computed.
DrawLayers(config, sp, canvasWidthPx, canvasHeightPx) ==
  DrawOutcome(config, sp, canvasWidthPx, canvasHeightPx,
              \/ /\ config.showGrid
                 /\ PrintGridDiverges(canvasWidthPx, canvasHeightPx, config.gridSpacingMM,
                                      config.paperWidth, config.paperHeight, config.dpi)
              \/ /\ config.showGuideCircles
                 /\ GuideLoopDiverges(sp.initialRadius, sp.finalRadius))

\* drawSpiral(canvas, config) with a 2D context.
drawSpiral(config) ==
  DrawLayers(config,
             calculateSpiralFromPaper(config.paperWidth * (LU \div CU),
                                      config.paperHeight * (LU \div CU), config.turns),
             mmToPixels(config.paperWidth, config.dpi),
             mmToPixels(config.paperHeight, config.dpi))

\* ------------------------------------------------- state manager (lib/state.ts)

VARIABLES
  state,      \* StateManager.state
  storage,    \* the localStorage item 'spiral-generator-state'
  canvas,     \* the canvas element: its size and the layers painted on it
  ui,         \* what the state subscription last wrote to the page
  hung,       \* a handler entered a loop that never leaves
  nEvents,    \* user events handled so far
  guide,      \* a run of generateGuideRadii, statement by statement
  solver,     \* a run of a binary-search solver of main.ts
  points,     \* a call of generateSpiralPoints
  fib,        \* the Fibonacci-square construction
  render,     \* a call of a drawSpiral variant, layer by layer
  exported,   \* what the export buttons produced: downloads, print windows, alerts
  gesture,    \* the variables the zoom and pan listeners of lib/zoom.ts close over
  fit,        \* a call of a calculateSpiralFromPaper variant
  single,     \* the module variables of the single-file application (main.ts)
  mgr         \* a StateManager with its objects, its listeners and their calls

vars ==
  <<state, storage, canvas, ui, hung, nEvents, guide, solver, points, fib, render,
    exported, gesture, fit, single, mgr>>

Idle == [pc |-> "idle"]

\* drawResult: null
Null == [null |-> TRUE]

\* The state the constructor builds before loadFromStorage.
InitialState ==
  [config            |-> DEFAULT_CONFIG,
   drawResult        |-> Null,
   zoom              |-> 1 * CU,
   panX              |-> 0,
   panY              |-> 0,
   isDragging        |-> FALSE,
   isConfigCollapsed |-> FALSE]

NoItem == [kind |-> "none"]

\* The fields of the configuration that hold numbers.
NumberFields == {"paperWidth", "paperHeight", "margin", "lineWidth", "turns", "dpi",
                 "gridSpacingMM"}

\* JSON.stringify writes a number that is not finite as null; JSON.parse gives
\* every other number, boolean and string back as it was.
JsonNumber(v) == IF IsNaN(v) THEN Null ELSE v

JsonOf(config) ==
  [f \in DOMAIN config |-> IF f \in NumberFields THEN JsonNumber(config[f]) ELSE config[f]]

\* JSON.stringify({config, isConfigCollapsed}) as the stored item, parsed again.
saveToStorageConfigOnly(st) ==
  [kind |-> "json", parsed |-> [config |-> JsonOf(st.config)]]
saveToStorage(st) ==
  [kind |-> "json",
   parsed |-> [config |-> JsonOf(st.config), isConfigCollapsed |-> st.isConfigCollapsed]]

\* loadFromStorage: only dpi is validated; the rest of the stored config is
\* spread over the defaults as it is.  A text that does not parse is ignored.
loadFromStorage(st, item) ==
  IF item.kind # "json" THEN st
  ELSE LET parsed == item.parsed
           cfg0   == IF "config" \in DOMAIN parsed THEN parsed.config ELSE <<>>
           cfg    == IF /\ "dpi" \in DOMAIN cfg0
                        /\ cfg0.dpi # 0
                        /\ cfg0.dpi \notin DPI_OPTIONS
                     THEN [cfg0 EXCEPT !.dpi = DEFAULT_CONFIG.dpi]
                     ELSE cfg0
       IN  [st EXCEPT !.config = Spread(DEFAULT_CONFIG, cfg),
                      !.isConfigCollapsed =
                         IF "isConfigCollapsed" \in DOMAIN parsed
                         THEN parsed.isConfigCollapsed ELSE FALSE]

updateConfig(st, partial) == [st EXCEPT !.config = Spread(st.config, partial)]

\* A reset of the configuration that leaves the view as it is.
resetConfigKeepingView(st) == [st EXCEPT !.config = DEFAULT_CONFIG]
resetConfig(st) == [st EXCEPT !.config = DEFAULT_CONFIG, !.zoom = 1 * CU, !.panX = 0, !.panY = 0]

setDrawResult(st, result) == [st EXCEPT !.drawResult = result]

toggleConfigCollapsed(st) == [st EXCEPT !.isConfigCollapsed = ~st.isConfigCollapsed]

\* Math.min and Math.max: NaN if either argument is NaN.
JsMin(a, b) == IF IsNaN(a) \/ IsNaN(b) THEN NaN ELSE Min(a, b)
JsMax(a, b) == IF IsNaN(a) \/ IsNaN(b) THEN NaN ELSE Max(a, b)

\* setZoom: Math.max(0.1, Math.min(5.0, zoom)), zoom in hundredths.
setZoom(st, zoom) == [st EXCEPT !.zoom = JsMax(CU \div 10, JsMin(5 * CU, zoom))]

setPan(st, x, y) == [st EXCEPT !.panX = x, !.panY = y]

resetView(st) == [st EXCEPT !.zoom = 1 * CU, !.panX = 0, !.panY = 0]

\* A setDragging that sets the flag whatever it is given.
setDraggingOn(st, isDragging) == [st EXCEPT !.isDragging = TRUE]
\* setDragging: the only method that does not notify.
setDragging(st, isDragging) == [st EXCEPT !.isDragging = isDragging]

\* notify: the listener registered by setupStateSubscriptions.  It writes the
\* zoom display, the canvas transform, the panel state and, when there is a
\* draw result, the statistics; it does not redraw.
Listener(page, st) ==
  [zoomDisplay    |-> st.zoom,
   transform      |-> <<st.zoom, st.panX, st.panY>>,
   panelCollapsed |-> st.isConfigCollapsed,
   stats          |-> IF st.drawResult # Null
                      THEN [result |-> st.drawResult,
                            paperWidth |-> st.config.paperWidth,
                            paperHeight |-> st.config.paperHeight]
                      ELSE page.stats]

BlankPage == [zoomDisplay |-> 1 * CU, transform |-> <<1 * CU, 0, 0>>,
              panelCollapsed |-> FALSE, stats |-> Null]

BlankCanvas == [width |-> 300 * CU, height |-> 150 * CU, layers |-> <<>>, paints |-> 0]

\* Nothing exported yet.
NoExport == [count |-> 0, last |-> Null]

\* let startX = 0, startY = 0, startPanX = 0, startPanY = 0 (mouse) and
\* let lastDistance = 0, lastCenterX = 0, ..., startPanX = 0, startPanY = 0 (touch);
\* touches is the number of touches on the screen (e.touches.length).
NoGesture ==
  [touches |-> 0, event |-> <<"load">>,
   drag |-> [source |-> "none", x |-> 0, y |-> 0, panX |-> 0, panY |-> 0],
   mouse |-> [startX |-> 0, startY |-> 0, startPanX |-> 0, startPanY |-> 0],
   touch |-> [lastDistance |-> 0, lastCenterX |-> 0, lastCenterY |-> 0,
              startPanX |-> 0, startPanY |-> 0]]

\* --------------------------------------------------- form handlers (handlers.ts)

MaxEvents == 3

\* parseFloat / parseInt of the texts typed below, in hundredths.
ParseNumber(text) ==
  CASE text = ""    -> NaN
    [] text = "0"   -> 0
    [] text = "-5"  -> 0 - 5 * CU
    [] text = "0.5" -> CU \div 2
    [] text = "2"   -> 2 * CU
    [] text = "10"  -> 10 * CU
    [] text = "150" -> 150 * CU
    [] text = "300" -> 300 * CU
    [] text = "400" -> 400 * CU
    [] text = "600" -> 600 * CU

\* v || 0
OrZero(v) == IF IsNaN(v) \/ v = 0 THEN 0 ELSE v

\* The input events of the form: the element's name and type, and its value
\* (or checked state) after the user's edit.
NumberInputs ==
  {<<"paperWidth", "">>, <<"paperWidth", "400">>,
   <<"paperHeight", "-5">>, <<"paperHeight", "300">>,
   <<"turns", "0">>, <<"turns", "0.5">>, <<"turns", "2">>,
   <<"lineWidth", "0">>, <<"lineWidth", "0.5">>,
   <<"gridSpacingMM", "0">>, <<"gridSpacingMM", "10">>}

FormInputs ==
  {[name |-> e[1], type |-> "number", value |-> e[2], checked |-> FALSE] : e \in NumberInputs}
  \cup {[name |-> "dpi", type |-> "select-one", value |-> v, checked |-> FALSE] :
          v \in {"150", "300", "600"}}
  \cup {[name |-> "paperSize", type |-> "select-one", value |-> "A4", checked |-> FALSE]}
  \cup {[name |-> n, type |-> "checkbox", value |-> "on", checked |-> c] :
          n \in {"showGoldenRectangles", "showRadialLines", "showGuideCircles", "showGrid"},
          c \in BOOLEAN}

\* The value the 'input' listener stores for the element.
InputValue(target) ==
  IF target.type = "checkbox" THEN target.checked
  ELSE OrZero(ParseNumber(target.value))

\* The end of redraw(): setDrawResult and its notification when drawSpiral
\* returned d; a hung page when it did not.
RedrawWith(st, pg, cv, d) ==
  [state  |-> IF d.returns THEN setDrawResult(st, d.result) ELSE st,
   ui     |-> IF d.returns THEN Listener(pg, setDrawResult(st, d.result)) ELSE pg,
   canvas |-> [width |-> d.canvas.width, height |-> d.canvas.height,
               layers |-> d.canvas.layers, paints |-> cv.paints + 1],
   hung   |-> ~d.returns]

\* redraw(): drawSpiral on the canvas with the current config, then
\* setDrawResult with what it returned.
Redraw(st, pg, cv) == RedrawWith(st, pg, cv, drawSpiral(st.config))

\* The page after a handler that stored st1 and redrew with outcome out.
Commit(st1, out) ==
  /\ storage' = saveToStorage(st1)
  /\ state' = out.state
  /\ ui' = out.ui
  /\ canvas' = out.canvas
  /\ hung' = out.hung

\* redrawFn() after updateConfig left st1 (saved, listeners notified).
RedrawAfter(st1) == Commit(st1, Redraw(st1, Listener(ui, st1), canvas))

\* updateConfig(partial) followed by redrawFn(), as both handlers do.
UpdateAndRedraw(partial) == RedrawAfter(updateConfig(state, partial))

Ready == ~hung /\ nEvents < MaxEvents

\* form 'input' listener
FormInput ==
  \E target \in FormInputs :
    /\ Ready
    /\ nEvents' = nEvents + 1
    /\ IF target.name = "paperSize"
       THEN UNCHANGED <<state, storage, canvas, ui, hung>>
       ELSE UpdateAndRedraw(target.name :> InputValue(target))
    /\ UNCHANGED <<guide, solver, points, fib, render, exported, gesture, fit, single, mgr>>

\* paper-size 'change' listener
PaperSizeChange ==
  \E selectedKey \in DOMAIN PAPER_SIZES :
    /\ Ready
    /\ nEvents' = nEvents + 1
    /\ UpdateAndRedraw([paperSize   |-> selectedKey,
                        paperWidth  |-> PAPER_SIZES[selectedKey].width,
                        paperHeight |-> PAPER_SIZES[selectedKey].height])
    /\ UNCHANGED <<guide, solver, points, fib, render, exported, gesture, fit, single, mgr>>

\* btn-reset 'click' listener: resetConfig and the form refresh; no redraw.
ResetClick ==
  /\ Ready
  /\ nEvents' = nEvents + 1
  /\ state' = resetConfig(state)
  /\ storage' = saveToStorage(state')
  /\ ui' = Listener(ui, state')
  /\ UNCHANGED <<canvas, hung, guide, solver, points, fib, render, exported, gesture, fit, single, mgr>>

\* btn-toggle-panel 'click' listener
TogglePanelClick ==
  /\ Ready
  /\ nEvents' = nEvents + 1
  /\ state' = toggleConfigCollapsed(state)
  /\ storage' = saveToStorage(state')
  /\ ui' = Listener(ui, state')
  /\ UNCHANGED <<canvas, hung, guide, solver, points, fib, render, exported, gesture, fit, single, mgr>>

\* Items an earlier session, or anything else, may have left in localStorage.
InitialItems ==
  {NoItem,
   [kind |-> "garbage"],
   saveToStorage(InitialState),
   [kind |-> "json", parsed |-> [config |-> [dpi |-> 72 * CU]]],
   saveToStorage([InitialState EXCEPT !.config.turns = 0, !.isConfigCollapsed = TRUE]),
   saveToStorage([InitialState EXCEPT !.config.paperWidth = 0])}

\* The page once the constructor built st0: the subscription (called at
\* once), the form refresh and the first redraw.
Loaded(out) ==
  /\ state = out.state
  /\ ui = out.ui
  /\ canvas = out.canvas
  /\ hung = out.hung

FirstDraw(st0) == Loaded(Redraw(st0, Listener(BlankPage, st0), BlankCanvas))

\* Page load.
Init ==
  /\ storage \in InitialItems
  /\ FirstDraw(loadFromStorage(InitialState, storage))
  /\ nEvents = 0
  /\ guide = Idle /\ solver = Idle /\ points = Idle /\ fib = Idle /\ render = Idle
  /\ fit = Idle /\ single = Idle /\ mgr = Idle
  /\ exported = NoExport /\ gesture = NoGesture

Next == FormInput \/ PaperSizeChange \/ ResetClick \/ TogglePanelClick

Spec == Init /\ [][Next]_vars

\* ------------------------------- generateGuideRadii, statement by statement

\* The array is followed up to this many elements.
MaxRadii == 12

\* Paper dimensions (mm) and turns (hundredths) a render may be asked for,
\* zero included, and radii (mm) generateGuideRadii may be called with.
GuidePaper == {0, 210, 297}
GuideTurns == {0, CU \div 2, CU, 2 * CU}
GuideRadii == {1, 10, 15, 16, 100}

GuideCall(initialRadius, finalRadius) ==
  [pc |-> "test", initialRadius |-> initialRadius, finalRadius |-> finalRadius,
   r |-> initialRadius, radii |-> <<>>]

\* drawGuideCircles passes the radii calculateSpiralFromPaper returned.
GuideCallFor(sp) == GuideCall(sp.initialRadius, sp.finalRadius)

GuideCalls ==
  {GuideCallFor(calculateSpiralFromPaper(w * LU, h * LU, t)) :
     w \in GuidePaper, h \in GuidePaper, t \in GuideTurns}
  \cup {GuideCall(r0 * LU, rf * LU) : r0 \in GuideRadii, rf \in GuideRadii}

OthersIdle(self) ==
  /\ self = "guide"  \/ guide = Idle
  /\ self = "solver" \/ solver = Idle
  /\ self = "points" \/ points = Idle
  /\ self = "fib"    \/ fib = Idle
  /\ self = "render" \/ render = Idle
  /\ self = "fit"    \/ fit = Idle
  /\ self = "single" \/ single = Idle
  /\ self = "mgr"    \/ mgr = Idle

AppIdle ==
  /\ state = InitialState /\ storage = NoItem /\ canvas = BlankCanvas
  /\ ui = BlankPage /\ hung = FALSE /\ nEvents = 0
  /\ exported = NoExport /\ gesture = NoGesture

AppVars == <<state, storage, canvas, ui, hung, nEvents, exported, gesture>>

InitGuide == AppIdle /\ OthersIdle("guide") /\ guide \in GuideCalls

\* while (r <= finalRadius * 1.1)
GuideTest ==
  /\ guide.pc = "test"
  /\ guide' = [guide EXCEPT !.pc = IF guide.r <= GuideLimit(guide.finalRadius)
                                   THEN "body" ELSE "finish"]
  /\ UNCHANGED <<AppVars, solver, points, fib, render, fit, single, mgr>>

\* radii.push(r); r *= PHI
GuideBody ==
  /\ guide.pc = "body"
  /\ guide' = [guide EXCEPT !.pc = "test",
                            !.radii = IF Len(guide.radii) < MaxRadii
                                      THEN Append(guide.radii, guide.r) ELSE guide.radii,
                            !.r = MulPhi(guide.r)]
  /\ UNCHANGED <<AppVars, solver, points, fib, render, fit, single, mgr>>

\* the push of finalRadius, the sort and the return
GuideReturn ==
  /\ guide.pc = "finish"
  /\ guide' = [guide EXCEPT !.pc = "done",
                            !.radii = GuideFinish(guide.radii, guide.finalRadius, LU)]
  /\ UNCHANGED <<AppVars, solver, points, fib, render, fit, single, mgr>>

NextGuide == GuideTest \/ GuideBody \/ GuideReturn

SpecGuide == InitGuide /\ [][NextGuide]_vars

\* The thread runs the function's next statement as long as there is one.
FairSpecGuide == SpecGuide /\ WF_vars(NextGuide)

\* C3: every render terminates, also when the paper width, height or the
\* turns are 0: the loop of generateGuideRadii is left and the function returns.
C3_GuideLoopExits == <>(guide.pc = "done")

\* ------------------------------------ single-file application (main.ts) mathematics

\* const steps = 50000 of calculateArcLength
ArcSteps == 50000

\* r(theta) = initialRadius * PHI ^ (theta / 2 pi): PHI per full turn.
goldenSpiralRadiusMain(theta, initialRadius) == PhiExpMul(initialRadius, theta, TwoPi)

\* sqrt(1 + k^2) / k = sqrt((1 / k)^2 + 1) for k = Math.log(PHI) / (2 pi), in 1e-3.
ArcGain == ISqrt(MulDiv(62832, 1000, 4812) * MulDiv(62832, 1000, 4812) + 1000 * 1000)

\* x * (PHI ^ (maxTheta / 2 pi) - 1)
TimesGrowth(x, maxTheta) == PhiExpMul(x, maxTheta, TwoPi) - x

\* theta / (2 pi), in 1e-4 turns.
TurnsOf(theta) == MulDiv(theta, Scale \div 10, TwoPi \div 10)

\* The left Riemann sum of ArcSteps steps falls short of the integral by the
\* fraction k * dTheta / 2 = ln(PHI) * turns / (2 * ArcSteps).
LeftSum(integral, maxTheta) ==
  integral - MulDiv(MulDiv(integral, MulDiv(TurnsOf(maxTheta), 4812, Scale) \div 10, Scale),
                    1, (2 * ArcSteps) \div 10)

\* calculateArcLength of main.ts: the sum of sqrt(r^2 + (r k)^2) dTheta over
\* ArcSteps steps, by the closed form of that geometric sum.
calculateArcLengthMain(initialRadius, maxTheta) ==
  LeftSum(TimesGrowth(MulDiv(initialRadius, ArcGain, 1000), maxTheta), maxTheta)

\* ------------------------------------------- the binary-search solvers of main.ts

\* A tolerance of 1 mm.
ToleranceOfOne == MLU

\* const tolerance = 0.1 (mm)
Tolerance == MLU \div 10

\* The loop bound: 0.001 mm for the radius, 0.0001 rad for the angle.
SolverThreshold(kind) == IF kind = "radius" THEN MLU \div 1000 ELSE HalfPi \div 15708

\* findInitialRadiusForPathLength(targetLength, turns) at its first loop test;
\* from is the radius the target was computed from, 0 when there is none.
RadiusCall(targetLength, turns, from) ==
  [pc |-> "loop", kind |-> "radius", target |-> targetLength,
   maxTheta |-> MulDiv(turns, TwoPi, CU), initialRadius |-> 0,
   low |-> MLU \div 10, high |-> 100 * MLU,
   low0 |-> MLU \div 10, high0 |-> 100 * MLU,
   iter |-> 0, result |-> 0, from |-> from, turns |-> turns]

\* findThetaForPathLength(initialRadius, targetLength) at its first loop test.
ThetaCall(initialRadius, targetLength) ==
  [pc |-> "loop", kind |-> "theta", target |-> targetLength,
   maxTheta |-> 0, initialRadius |-> initialRadius,
   low |-> 0, high |-> 20 * TwoPi,
   low0 |-> 0, high0 |-> 20 * TwoPi,
   iter |-> 0, result |-> 0, from |-> 0, turns |-> 0]

\* const length = calculateArcLength(...) of either solver
SolverLength(s, mid) ==
  IF s.kind = "radius" THEN calculateArcLengthMain(mid, s.maxTheta)
  ELSE calculateArcLengthMain(s.initialRadius, mid)

\* A loop body that leaves low where it is when the length falls short.
BisectKeepingLow(s, mid, length) ==
  IF Abs(length - s.target) < Tolerance
  THEN [s EXCEPT !.pc = "done", !.result = mid, !.iter = s.iter + 1]
  ELSE IF length < s.target
  THEN [s EXCEPT !.iter = s.iter + 1]
  ELSE [s EXCEPT !.high = mid, !.iter = s.iter + 1]

\* The body of the loop for a midpoint and the length computed there.
Bisect(s, mid, length) ==
  IF Abs(length - s.target) < Tolerance
  THEN [s EXCEPT !.pc = "done", !.result = mid, !.iter = s.iter + 1]
  ELSE IF length < s.target
  THEN [s EXCEPT !.low = mid, !.iter = s.iter + 1]
  ELSE [s EXCEPT !.high = mid, !.iter = s.iter + 1]

BisectAt(s, mid) == Bisect(s, mid, SolverLength(s, mid))

\* Radii (1e-4 mm) and turns (hundredths) of the round trips, targets (1e-4 mm)
\* that no radius or angle of the interval reaches, and calls of the angle solver.
SolverRadii == {MLU \div 10, MLU, 15 * MLU, 50 * MLU, 100 * MLU}
SolverTurns == {CU \div 2, CU, 2 * CU, (15 * CU) \div 2}
SolverTargets == {0 - 10 * MLU, 0, 3330 * MLU, 200000 * MLU}
ThetaCalls ==
  {ThetaCall(15 * MLU, 3330 * MLU), ThetaCall(15 * MLU, 0), ThetaCall(15 * MLU, 0 - 10 * MLU),
   ThetaCall(MLU, 100 * MLU), ThetaCall(MLU, 210000 * MLU), ThetaCall(MLU \div 10, 5 * MLU)}

SolverCalls ==
  {RadiusCall(calculateArcLengthMain(r0, MulDiv(t, TwoPi, CU)), t, r0) :
     r0 \in SolverRadii, t \in SolverTurns}
  \cup {RadiusCall(target, t, 0) : target \in SolverTargets, t \in SolverTurns}
  \cup ThetaCalls

InitSolver == AppIdle /\ OthersIdle("solver") /\ solver \in SolverCalls

\* One iteration: while (high - low > threshold) { mid, length, return or halve }
SolverStep ==
  /\ solver.pc = "loop"
  /\ solver.high - solver.low > SolverThreshold(solver.kind)
  /\ solver' = BisectAt(solver, (solver.low + solver.high) \div 2)
  /\ UNCHANGED <<AppVars, guide, points, fib, render, fit, single, mgr>>

\* The loop is left: return (low + high) / 2
SolverExit ==
  /\ solver.pc = "loop"
  /\ solver.high - solver.low <= SolverThreshold(solver.kind)
  /\ solver' = [solver EXCEPT !.pc = "done", !.result = (solver.low + solver.high) \div 2]
  /\ UNCHANGED <<AppVars, guide, points, fib, render, fit, single, mgr>>

NextSolver == SolverStep \/ SolverExit

SpecSolver == InitSolver /\ [][NextSolver]_vars

\* ------------------------------- generateSpiralPoints, statement by statement

\* cos and sin of an angle of the first quarter turn (1e-5 rad), in 1e-4:
\* 1 - x^2/2 (1 - x^2/12 (1 - x^2/30 (1 - x^2/56))) and
\* x (1 - x^2/6 (1 - x^2/20 (1 - x^2/42))).
CosPoly(x2) ==
  Scale - MulDiv(x2, Scale - MulDiv(x2, Scale - MulDiv(x2, Scale - x2 \div 56, 30 * Scale),
                                    12 * Scale), 2 * Scale)

SinPoly(x, x2) ==
  MulDiv(x, Scale - MulDiv(x2, Scale - MulDiv(x2, Scale - x2 \div 42, 20 * Scale), 6 * Scale),
         Scale)

CosQuarter(f) == CosPoly(MulDiv(f \div 10, f \div 10, Scale))
SinQuarter(f) == SinPoly(f \div 10, MulDiv(f \div 10, f \div 10, Scale))

\* Math.cos(-theta) and Math.sin(-theta) of an angle theta >= 0, by quarter turns.
CosNeg(theta) ==
  IF IsNaN(theta) THEN NaN
  ELSE CASE (theta % TwoPi) \div HalfPi = 0 -> CosQuarter(theta % HalfPi)
         [] (theta % TwoPi) \div HalfPi = 1 -> 0 - SinQuarter(theta % HalfPi)
         [] (theta % TwoPi) \div HalfPi = 2 -> 0 - CosQuarter(theta % HalfPi)
         [] OTHER -> SinQuarter(theta % HalfPi)

SinNeg(theta) ==
  IF IsNaN(theta) THEN NaN
  ELSE CASE (theta % TwoPi) \div HalfPi = 0 -> 0 - SinQuarter(theta % HalfPi)
         [] (theta % TwoPi) \div HalfPi = 1 -> 0 - CosQuarter(theta % HalfPi)
         [] (theta % TwoPi) \div HalfPi = 2 -> SinQuarter(theta % HalfPi)
         [] OTHER -> CosQuarter(theta % HalfPi)

\* r * c for a factor c in 1e-4; NaN times anything is NaN.
TimesFactor(r, c) == IF IsNaN(r) \/ IsNaN(c) THEN NaN ELSE MulDiv(r, c, Scale)

\* Math.ceil((maxTheta / (2 * Math.PI)) * pointsPerTurn)
TotalPoints(maxTheta, pointsPerTurn) == CeilDiv(maxTheta * pointsPerTurn, TwoPi)

\* (i / totalPoints) * maxTheta: 0 / 0 is NaN, and NaN * maxTheta is NaN.
ThetaAt(i, totalPoints, maxTheta) ==
  IF totalPoints = 0 THEN (IF i = 0 THEN NaN ELSE MaxInt)
  ELSE MulDiv(i, maxTheta, totalPoints)

\* goldenSpiralRadius(theta, initialRadius): Math.exp of NaN is NaN.
RadiusAt(theta, initialRadius) ==
  IF IsNaN(theta) THEN NaN ELSE goldenSpiralRadius(theta, initialRadius)

\* { x: r * Math.cos(-theta), y: r * Math.sin(-theta), radius: r }; theta is
\* kept with the point to tell the order of the angles.
PointOf(theta, r) ==
  [x |-> TimesFactor(r, CosNeg(theta)), y |-> TimesFactor(r, SinNeg(theta)),
   radius |-> r, theta |-> theta]

PointAt(p) ==
  PointOf(ThetaAt(p.i, p.totalPoints, p.maxTheta),
          RadiusAt(ThetaAt(p.i, p.totalPoints, p.maxTheta), p.initialRadius))

\* Radii (1e-5 mm), angles (1e-5 rad) and points per turn of the calls: no
\* angle, a part of a turn, whole turns, and 1 radian.
PointRadii == {LU, 15 * LU}
PointThetas == {0, HalfPi \div 2, HalfPi, 2 * HalfPi, TwoPi, LU, TwoPi + HalfPi, 2 * TwoPi}
PointsPerTurn == {1, 3, 4, 8}

PointsCall(initialRadius, maxTheta, pointsPerTurn) ==
  [pc |-> "loop", initialRadius |-> initialRadius, maxTheta |-> maxTheta,
   pointsPerTurn |-> pointsPerTurn,
   totalPoints |-> TotalPoints(maxTheta, pointsPerTurn), i |-> 0, out |-> <<>>]

PointsCalls ==
  {PointsCall(r0, th, n) : r0 \in PointRadii, th \in PointThetas, n \in PointsPerTurn}

InitPoints == AppIdle /\ OthersIdle("points") /\ points \in PointsCalls

\* for (let i = 0; i <= totalPoints; i++) { ... points.push({ x, y, radius: r }) }
PointsPush ==
  /\ points.pc = "loop"
  /\ points.i <= points.totalPoints
  /\ points' = [points EXCEPT !.out = Append(points.out, PointAt(points)),
                              !.i = points.i + 1]
  /\ UNCHANGED <<AppVars, guide, solver, fib, render, fit, single, mgr>>

\* return points
PointsReturn ==
  /\ points.pc = "loop"
  /\ points.i > points.totalPoints
  /\ points' = [points EXCEPT !.pc = "done"]
  /\ UNCHANGED <<AppVars, guide, solver, fib, render, fit, single, mgr>>

NextPoints == PointsPush \/ PointsReturn

SpecPoints == InitPoints /\ [][NextPoints]_vars

\* --------------------------------------------------- claims about the points

\* C6: for maxTheta >= 0 and pointsPerTurn >= 1, generateSpiralPoints returns
\* ceil(maxTheta / (2 pi) * pointsPerTurn) + 1 points in order of increasing
\* angle, the first of them (initialRadius, 0), also when maxTheta = 0.
C6_PointsCountOrderFirst ==
  points.pc = "done" =>
    /\ Len(points.out) = TotalPoints(points.maxTheta, points.pointsPerTurn) + 1
    /\ \A k \in 1..(Len(points.out) - 1) : points.out[k].theta < points.out[k + 1].theta
    /\ points.out[1].x = points.initialRadius
    /\ points.out[1].y = 0

\* ------------------- Fibonacci squares (lib/renderer.ts, Fibonacci construction)

\* The squares are followed up to this many.
MaxSquares == 12

\* fib.push(fib[i - 1] + fib[i - 2])
NextFibDoubled(fibs) == 2 * fibs[Len(fibs)]
NextFib(fibs) == fibs[Len(fibs)] + fibs[Len(fibs) - 1]

RECURSIVE FibLoop(_, _)
FibLoop(fibs, n) == IF Len(fibs) >= n THEN fibs ELSE FibLoop(Append(fibs, NextFib(fibs)), n)

generateFibonacci(n) ==
  IF n <= 0 THEN <<>> ELSE IF n = 1 THEN <<1>> ELSE FibLoop(<<1, 1>>, n)

MinOf(S) == CHOOSE m \in S : \A o \in S : m <= o
MaxOf(S) == CHOOSE m \in S : \A o \in S : m >= o

\* The bounding box of the squares placed so far, recalculated from them.
BoundsOf(sq) ==
  [minX |-> MinOf({sq[j].x : j \in DOMAIN sq}),
   minY |-> MinOf({sq[j].y : j \in DOMAIN sq}),
   maxX |-> MaxOf({sq[j].x + sq[j].size : j \in DOMAIN sq}),
   maxY |-> MaxOf({sq[j].y + sq[j].size : j \in DOMAIN sq})]

\* switch (dir): 1 right, 2 below, 3 left, 0 above (y grows downward).
SquareBesideCorner(dir, bb, size) ==
  CASE dir = 1 -> [x |-> bb.maxX, y |-> bb.minY, size |-> size]
    [] dir = 2 -> [x |-> bb.maxX, y |-> bb.maxY, size |-> size]
    [] dir = 3 -> [x |-> bb.minX - size, y |-> bb.maxY - size, size |-> size]
    [] OTHER   -> [x |-> bb.minX, y |-> bb.minY - size, size |-> size]
SquareBeside(dir, bb, size) ==
  CASE dir = 1 -> [x |-> bb.maxX, y |-> bb.minY, size |-> size]
    [] dir = 2 -> [x |-> bb.maxX - size, y |-> bb.maxY, size |-> size]
    [] dir = 3 -> [x |-> bb.minX - size, y |-> bb.maxY - size, size |-> size]
    [] OTHER   -> [x |-> bb.minX, y |-> bb.minY - size, size |-> size]

\* The first square, centered at the origin of the construction.
FirstSquare(startX, startY, firstSize) ==
  [x |-> startX - firstSize \div 2, y |-> startY - firstSize \div 2, size |-> firstSize]

\* A call of calculateBoundingBox (coordinates in halves of the unit, the
\* first square centered at (0, 0)) or of drawFibonacciRectangles (pixels;
\* unit is mmToPixels(scale, dpi), the side of the first square). Sides and
\* coordinates are whole multiples of half the first side, which the numbers
\* of the source hold exactly up to 2^53.
FibCall(fn, startX, startY, unit, numSquares) ==
  [pc |-> "start", fn |-> fn, startX |-> startX, startY |-> startY, unit |-> unit,
   numSquares |-> numSquares, fibSequence |-> generateFibonacci(numSquares + 2),
   i |-> 0, squares |-> <<>>, result |-> Null]

\* A call of drawFibonacciSpiral (pixels): the same squares, then one arc in
\* each.  lineWidth is in hundredths of a millimetre, dpi in hundredths.
SpiralCall(startX, startY, unit, numArcs, lineWidth, dpi) ==
  FibCall("drawFibonacciSpiral", startX, startY, unit, numArcs)
    @@ [lineWidth |-> lineWidth, dpi |-> dpi]

\* Line widths typed into the form: 0.1 mm, 0.5 mm and the default 2 mm.
LineWidths == {10, 50, 200}

FibCalls ==
  {FibCall("calculateBoundingBox", 0, 0, 2, n) : n \in 0..MaxSquares}
  \cup {FibCall("drawFibonacciRectangles", 1240, 1754, 6, n) : n \in 0..MaxSquares}
  \cup {SpiralCall(1240, 1754, 6, n, lineWidth, dpi) :
           n \in 0..MaxSquares, lineWidth \in LineWidths, dpi \in {150 * CU, 300 * CU}}

InitFib == AppIdle /\ OthersIdle("fib") /\ fib \in FibCalls

\* if (numSquares <= 0) return { width: 1, height: 1, offsetX: 0, offsetY: 0 }
ReturnsAtOnce(f) == f.fn = "calculateBoundingBox" /\ f.numSquares <= 0

\* The early return, or the placement of the first square.
FibFirst ==
  /\ fib.pc = "start"
  /\ fib' = IF ReturnsAtOnce(fib)
            THEN [fib EXCEPT !.pc = "done",
                             !.result = [width |-> fib.unit, height |-> fib.unit,
                                         offsetX |-> 0, offsetY |-> 0]]
            ELSE [fib EXCEPT !.pc = "loop", !.i = 1,
                             !.squares = <<FirstSquare(fib.startX, fib.startY,
                                                       fib.fibSequence[1] * fib.unit)>>]
  /\ UNCHANGED <<AppVars, guide, solver, points, render, fit, single, mgr>>

\* for (let i = 1; i < numSquares; i++) { ... squares.push({ x: newX, y: newY, size }) }
FibPlace ==
  /\ fib.pc = "loop"
  /\ fib.i < fib.numSquares
  /\ fib' = [fib EXCEPT !.i = fib.i + 1,
                        !.squares = Append(fib.squares,
                                           SquareBeside(fib.i % 4, BoundsOf(fib.squares),
                                                        fib.fibSequence[fib.i + 1] * fib.unit))]
  /\ UNCHANGED <<AppVars, guide, solver, points, render, fit, single, mgr>>

\* The arc center, the corner of the square where the spiral pivots: bottom
\* right, bottom left, top left, top right for i mod 4 = 0, 1, 2, 3.
ArcCenterBottomRight(dir, sq) == [x |-> sq.x + sq.size, y |-> sq.y + sq.size]
ArcCenter(dir, sq) ==
  CASE dir = 1 -> [x |-> sq.x, y |-> sq.y + sq.size]
    [] dir = 2 -> [x |-> sq.x, y |-> sq.y]
    [] dir = 3 -> [x |-> sq.x + sq.size, y |-> sq.y]
    [] OTHER   -> [x |-> sq.x + sq.size, y |-> sq.y + sq.size]

\* startAngle and endAngle, in quarter turns (multiples of Math.PI * 0.5).
ArcAngles(dir) ==
  CASE dir = 1 -> <<3, 4>>
    [] dir = 2 -> <<0, 1>>
    [] dir = 3 -> <<1, 2>>
    [] OTHER   -> <<2, 3>>

\* Math.max(minLineWidthPx, Math.min(radiusPx * 0.015, maxLineWidthPx)), in
\* thousandths of a pixel; radiusPx in pixels.
minLineWidthPx(dpi) == mmToPixels(200, dpi)
maxLineWidthPx(lineWidth, dpi) == mmToPixels(lineWidth * 10, dpi)
arcLineWidth(radiusPx, lineWidth, dpi) ==
  JsMax(minLineWidthPx(dpi), JsMin(radiusPx * 15, maxLineWidthPx(lineWidth, dpi)))

\* ctx.lineWidth = arcLineWidth; ctx.arc(arcX, arcY, radiusPx, startAngle, endAngle)
ArcIn(i, sq, lineWidth, dpi) ==
  [arcX |-> ArcCenter(i % 4, sq).x, arcY |-> ArcCenter(i % 4, sq).y,
   radiusPx |-> sq.size,
   startAngle |-> ArcAngles(i % 4)[1], endAngle |-> ArcAngles(i % 4)[2],
   lineWidth |-> arcLineWidth(sq.size, lineWidth, dpi)]

\* for (let i = 0; i < numArcs; i++) { ... ctx.stroke() }
ArcsOf(f) == [j \in 1..f.numSquares |-> ArcIn(j - 1, f.squares[j], f.lineWidth, f.dpi)]

\* width, height and the offset of the center (halves of the unit, so the
\* offset (min + max) / 2 is halved once more), or the squares stroked, or
\* the arcs stroked.
FibResult(f, bb) ==
  IF f.fn = "calculateBoundingBox"
  THEN [width |-> bb.maxX - bb.minX, height |-> bb.maxY - bb.minY,
        offsetX2 |-> bb.minX + bb.maxX, offsetY2 |-> bb.minY + bb.maxY]
  ELSE IF f.fn = "drawFibonacciRectangles"
  THEN [stroked |-> f.squares]
  ELSE [arcs |-> ArcsOf(f)]

FibReturn ==
  /\ fib.pc = "loop"
  /\ fib.i >= fib.numSquares
  /\ fib' = [fib EXCEPT !.pc = "done", !.result = FibResult(fib, BoundsOf(fib.squares))]
  /\ UNCHANGED <<AppVars, guide, solver, points, render, fit, single, mgr>>

NextFibStep == FibFirst \/ FibPlace \/ FibReturn

SpecFib == InitFib /\ [][NextFibStep]_vars

\* --------------------------------------------------- claims about the squares

\* Square j + 1 (index j of the source) lies flush against the bounding box
\* bb of the squares before it, on the side j mod 4, along a full edge of bb.
FlushOnSide(dir, bb, s) ==
  CASE dir = 1 -> s.x = bb.maxX /\ s.y = bb.minY /\ s.size = bb.maxY - bb.minY
    [] dir = 2 -> s.y = bb.maxY /\ s.x = bb.minX /\ s.size = bb.maxX - bb.minX
    [] dir = 3 -> s.x + s.size = bb.minX /\ s.y = bb.minY /\ s.size = bb.maxY - bb.minY
    [] OTHER   -> s.y + s.size = bb.minY /\ s.x = bb.minX /\ s.size = bb.maxX - bb.minX

\* C8: for n >= 1 the construction produces n squares of sizes 1, 1, 2, 3, 5,
\* 8, ... (each the sum of the two before it); square i >= 1 is flush against
\* the bounding box of squares 0..i-1 on the side i mod 4 (right, down, left,
\* up) and shares a full edge with it.
C8_SquaresFlushInTurn ==
  /\ (fib.pc = "done" /\ fib.numSquares >= 1) => Len(fib.squares) = fib.numSquares
  /\ fib.pc # "idle" =>
       \A j \in 1..Len(fib.squares) :
         /\ j <= 2 => fib.squares[j].size = fib.unit
         /\ j > 2 => fib.squares[j].size = fib.squares[j - 1].size + fib.squares[j - 2].size
         /\ j > 1 => FlushOnSide((j - 1) % 4, BoundsOf(SubSeq(fib.squares, 1, j - 1)),
                                 fib.squares[j])

C8_Witness ==
  /\ fib.pc = "done" /\ fib.fn = "calculateBoundingBox" /\ fib.numSquares = 6
  /\ fib.squares[6] = [x |-> 3, y |-> 0 - 11, size |-> 16]

InteriorsDisjoint(a, b) ==
  \/ a.x + a.size <= b.x \/ b.x + b.size <= a.x
  \/ a.y + a.size <= b.y \/ b.y + b.size <= a.y

RECURSIVE AreaSum(_, _)
AreaSum(sq, k) == IF k = 0 THEN 0 ELSE sq[k].size * sq[k].size + AreaSum(sq, k - 1)

\* The squares fill the box bb of sides F(k) and F(k + 1), k the number of squares.
TilesBox(sq, bb, k) ==
  /\ {bb.maxX - bb.minX, bb.maxY - bb.minY} = {sq[k].size, sq[k].size + sq[k - 1].size}
  /\ AreaSum(sq, k) = (bb.maxX - bb.minX) * (bb.maxY - bb.minY)

\* C9: after the first k >= 2 squares are placed, their interiors are pairwise
\* disjoint and they exactly tile their bounding box, a rectangle of sides
\* F(k) and F(k + 1).
C9_SquaresTileBox ==
  (fib.pc # "idle" /\ Len(fib.squares) >= 2) =>
    /\ \A a, b \in 1..Len(fib.squares) :
         a < b => InteriorsDisjoint(fib.squares[a], fib.squares[b])
    /\ TilesBox(fib.squares, BoundsOf(fib.squares), Len(fib.squares))

C9_Witness ==
  /\ fib.pc = "loop" /\ fib.fn = "drawFibonacciRectangles" /\ Len(fib.squares) = 4
  /\ BoundsOf(fib.squares).maxX - BoundsOf(fib.squares).minX = 5 * fib.unit
  /\ BoundsOf(fib.squares).maxY - BoundsOf(fib.squares).minY = 3 * fib.unit

\* ------------------------------------------------------ claims about the arcs

\* The point of the circle around (arcX, arcY) at an angle of q quarter turns
\* (x to the right, y downward, angles clockwise on the canvas).
ArcPoint(arc, q) ==
  CASE q % 4 = 0 -> [x |-> arc.arcX + arc.radiusPx, y |-> arc.arcY]
    [] q % 4 = 1 -> [x |-> arc.arcX, y |-> arc.arcY + arc.radiusPx]
    [] q % 4 = 2 -> [x |-> arc.arcX - arc.radiusPx, y |-> arc.arcY]
    [] OTHER     -> [x |-> arc.arcX, y |-> arc.arcY - arc.radiusPx]

Corners(sq) ==
  {[x |-> sq.x + dx, y |-> sq.y + dy] : dx \in {0, sq.size}, dy \in {0, sq.size}}

Within(p, sq) ==
  /\ sq.x <= p.x /\ p.x <= sq.x + sq.size
  /\ sq.y <= p.y /\ p.y <= sq.y + sq.size

\* A quarter circle lies in the box spanned by its center and the corner
\* opposite to it, center + (start - center) + (end - center).
ArcInside(arc, sq) ==
  /\ arc.endAngle = arc.startAngle + 1
  /\ Within([x |-> arc.arcX, y |-> arc.arcY], sq)
  /\ Within([x |-> ArcPoint(arc, arc.startAngle).x + ArcPoint(arc, arc.endAngle).x - arc.arcX,
             y |-> ArcPoint(arc, arc.startAngle).y + ArcPoint(arc, arc.endAngle).y - arc.arcY],
            sq)

SpiralDrawn == fib.pc = "done" /\ fib.fn = "drawFibonacciSpiral"

\* C27: the Fibonacci spiral is one continuous curve: for n >= 2 quarter turns
\* the arc of square i ends where the arc of square i + 1 starts, and each arc
\* has its square's side as radius, a corner of its square as center and lies
\* inside its square.
C27_ArcsJoinInsideSquares ==
  (SpiralDrawn /\ fib.numSquares >= 2) =>
    /\ Len(fib.result.arcs) = fib.numSquares
    /\ \A j \in 1..fib.numSquares :
         /\ fib.result.arcs[j].radiusPx = fib.squares[j].size
         /\ [x |-> fib.result.arcs[j].arcX, y |-> fib.result.arcs[j].arcY]
              \in Corners(fib.squares[j])
         /\ ArcInside(fib.result.arcs[j], fib.squares[j])
    /\ \A j \in 1..(fib.numSquares - 1) :
         ArcPoint(fib.result.arcs[j], fib.result.arcs[j].endAngle)
           = ArcPoint(fib.result.arcs[j + 1], fib.result.arcs[j + 1].startAngle)

\* Six arcs drawn: the fifth ends at the top right corner of its square, the
\* top left corner of the sixth square, where the sixth arc starts.
C27_Witness ==
  /\ SpiralDrawn /\ fib.numSquares = 6
  /\ ArcPoint(fib.result.arcs[5], fib.result.arcs[5].endAngle)
       = [x |-> fib.squares[5].x + fib.squares[5].size, y |-> fib.squares[5].y]
  /\ ArcPoint(fib.result.arcs[6], fib.result.arcs[6].startAngle)
       = [x |-> fib.squares[6].x, y |-> fib.squares[6].y]

\* C29: the stroke width of every arc is never larger than the configured line
\* width, never smaller than the 0.2 mm minimum, and never decreases from one
\* arc to the next larger arc, for every positive configured line width.
C29_StrokeWidthWithinLimits ==
  (SpiralDrawn /\ fib.lineWidth > 0) =>
    /\ \A j \in 1..fib.numSquares :
         /\ fib.result.arcs[j].lineWidth <= maxLineWidthPx(fib.lineWidth, fib.dpi)
         /\ fib.result.arcs[j].lineWidth >= minLineWidthPx(fib.dpi)
    /\ \A j \in 1..(fib.numSquares - 1) :
         fib.result.arcs[j].lineWidth <= fib.result.arcs[j + 1].lineWidth

\* The same for line widths of at least the minimum of 0.2 mm.
C29_FromMinimumOn ==
  (SpiralDrawn /\ fib.lineWidth >= 20) =>
    /\ \A j \in 1..fib.numSquares :
         /\ fib.result.arcs[j].lineWidth <= maxLineWidthPx(fib.lineWidth, fib.dpi)
         /\ fib.result.arcs[j].lineWidth >= minLineWidthPx(fib.dpi)
    /\ \A j \in 1..(fib.numSquares - 1) :
         fib.result.arcs[j].lineWidth <= fib.result.arcs[j + 1].lineWidth

\* ---------------------------- the renders, drawing statement by drawing statement

\* The drawing statements of drawSpiral in the order they are written: of the
\* modular renderer, of the Fibonacci renderer and of the single-file
\* application (whose background is the white fill and the paper texture, and
\* which computes its spiral, "calculate", after the background).
RenderStatementsSpiralFirst(variant) ==
  CASE variant = "spiral"    -> <<"background", "grid", "spiral", "guideCircles", "centerMark">>
    [] variant = "fibonacci" -> <<"background", "grid", "spiral", "goldenRectangles">>
    [] OTHER                 -> <<"background", "paperTexture", "calculate", "spiral",
                                  "guideCircles", "centerMark">>
RenderStatements(variant) ==
  CASE variant = "spiral"    -> <<"background", "grid", "guideCircles", "spiral", "centerMark">>
    [] variant = "fibonacci" -> <<"background", "grid", "goldenRectangles", "spiral">>
    [] OTHER                 -> <<"background", "paperTexture", "calculate", "guideCircles",
                                  "spiral", "centerMark">>

\* if (config.showGrid), if (config.showGuideCircles), if (config.showGoldenRectangles);
\* the single-file application draws its guide circles unconditionally.
Drawn(variant, config, layer) ==
  CASE layer = "grid"             -> config.showGrid
    [] layer = "guideCircles"     -> variant = "main" \/ config.showGuideCircles
    [] layer = "goldenRectangles" -> config.showGoldenRectangles
    [] layer = "calculate"        -> FALSE
    [] OTHER                      -> TRUE

RenderToggles ==
  [showGrid : BOOLEAN, showGuideCircles : BOOLEAN,
   showGoldenRectangles : BOOLEAN, showRadialLines : BOOLEAN]

\* A call on a canvas that gives a 2D context (ctx) or none.  sized: the
\* canvas dimensions were set; calculated: path length and radii were returned
\* or, in the single-file application, stored in its variables.
RenderCall(variant, config, ctx) ==
  [pc |-> "enter", variant |-> variant, config |-> config, ctx |-> ctx,
   sized |-> FALSE, calculated |-> FALSE, at |-> 1, log |-> <<>>]

RenderCalls ==
  {RenderCall(v, c, x) : v \in {"spiral", "fibonacci"}, c \in RenderToggles, x \in BOOLEAN}
  \cup {RenderCall("main", [useFixedTurns |-> u], x) : u \in BOOLEAN, x \in BOOLEAN}

InitRender == AppIdle /\ OthersIdle("render") /\ render \in RenderCalls

\* const ctx = canvas.getContext('2d'); without a context the modular
\* renderers throw, and the single-file application returns.
GetContext ==
  /\ render.pc = "enter"
  /\ render' = [render EXCEPT !.pc = IF render.ctx THEN "size"
                                     ELSE IF render.variant = "main" THEN "returned"
                                     ELSE "threw"]
  /\ UNCHANGED <<AppVars, guide, solver, points, fib, fit, single, mgr>>

\* canvas.width = ...; canvas.height = ...
SizeCanvas ==
  /\ render.pc = "size"
  /\ render' = [render EXCEPT !.pc = "draw", !.sized = TRUE]
  /\ UNCHANGED <<AppVars, guide, solver, points, fib, fit, single, mgr>>

\* The statement the render is at, if it is the one that draws this layer.
AtStatement(r, layer) ==
  /\ r.pc = "draw"
  /\ r.at <= Len(RenderStatements(r.variant))
  /\ RenderStatements(r.variant)[r.at] = layer

\* The statement is executed: the layer is drawn unless its test fails.
Executed(r, layer) ==
  [r EXCEPT !.at = r.at + 1,
            !.calculated = r.calculated \/ layer = "calculate",
            !.log = IF Drawn(r.variant, r.config, layer) THEN Append(r.log, layer) ELSE r.log]

RenderStep(layer) ==
  /\ AtStatement(render, layer)
  /\ render' = Executed(render, layer)
  /\ UNCHANGED <<AppVars, guide, solver, points, fib, fit, single, mgr>>

\* ctx.fillRect(0, 0, canvasWidthPx, canvasHeightPx)
FillBackground == RenderStep("background")
\* addPaperTexture(ctx, canvasPixels)
AddPaperTexture == RenderStep("paperTexture")
\* maxTheta, calculatedPathLength = ..., finalRadius = ... (main.ts)
Calculate == RenderStep("calculate")
\* if (config.showGrid) drawPrintGrid(...)
DrawPrintGrid == RenderStep("grid")
\* if (config.showGoldenRectangles) drawFibonacciRectangles(...)
DrawFibonacciRectangles == RenderStep("goldenRectangles")
\* if (config.showGuideCircles) drawGuideCircles(...)
DrawGuideCircles == RenderStep("guideCircles")
\* drawSpiralPath(...), drawFibonacciSpiral(...), ctx.stroke()
DrawSpiralPath == RenderStep("spiral")
\* drawCenterMark(...)
DrawCenterMark == RenderStep("centerMark")

\* return { pathLength, initialRadius, finalRadius }
RenderReturn ==
  /\ render.pc = "draw"
  /\ render.at > Len(RenderStatements(render.variant))
  /\ render' = [render EXCEPT !.pc = "done", !.calculated = TRUE]
  /\ UNCHANGED <<AppVars, guide, solver, points, fib, fit, single, mgr>>

NextRender ==
  \/ GetContext \/ SizeCanvas \/ Calculate
  \/ FillBackground \/ AddPaperTexture \/ DrawPrintGrid \/ DrawFibonacciRectangles
  \/ DrawGuideCircles \/ DrawSpiralPath \/ DrawCenterMark \/ RenderReturn

SpecRender == InitRender /\ [][NextRender]_vars

\* --------------------------------------------------- claims about the renders

\* The place of a layer from back to front; the paper texture belongs to the
\* background, and radial lines are drawn by no renderer.
LayerRank(layer) ==
  CASE layer = "background"       -> 0
    [] layer = "paperTexture"     -> 1
    [] layer = "grid"             -> 2
    [] layer = "radialLines"      -> 3
    [] layer = "goldenRectangles" -> 4
    [] layer = "guideCircles"     -> 5
    [] layer = "spiral"           -> 6
    [] OTHER                      -> 7

\* C10: in every render the layers are drawn back to front: the background
\* first, then the grid, radial lines, golden rectangles and guide circles
\* that are drawn at all, then the spiral curve, then the center mark; no
\* layer is drawn before a layer that precedes it in this order.
C10_LayersBackToFront ==
  render.pc # "idle" =>
    /\ \A k \in 1..(Len(render.log) - 1) :
         LayerRank(render.log[k]) < LayerRank(render.log[k + 1])
    /\ render.log # <<>> => render.log[1] = "background"
    /\ render.pc = "done" => \E k \in 1..Len(render.log) : render.log[k] = "spiral"

C10_Witness ==
  /\ render.pc = "done" /\ render.variant = "spiral"
  /\ render.log = <<"background", "grid", "guideCircles", "spiral", "centerMark">>

\* The layer is among those the render has drawn.
InLog(r, layer) == \E k \in 1..Len(r.log) : r.log[k] = layer

\* C11: each optional overlay (grid, guide circles, golden rectangles, radial
\* lines) is drawn in a render if and only if its toggle is true in the
\* configuration passed to that render.
C11_OverlayIffToggle ==
  (render.pc = "done" /\ render.variant # "main") =>
    /\ InLog(render, "grid") <=> render.config.showGrid
    /\ InLog(render, "guideCircles") <=> render.config.showGuideCircles
    /\ InLog(render, "goldenRectangles") <=> render.config.showGoldenRectangles
    /\ InLog(render, "radialLines") <=> render.config.showRadialLines

\* ------------------------------------------------ export buttons (lib/export.ts)

\* generateFilename: the paper size, the turns and the path length in metres
\* with two decimals (the date is left out).
generateFilename(config, pathLength, extension) ==
  [paperSize |-> config.paperSize, turns |-> config.turns,
   pathMeters |-> IF IsNaN(pathLength) THEN NaN ELSE RoundDiv(pathLength, 10 * LU),
   extension |-> extension]

\* The SVG text of downloadSVG: the root element in millimetres, title and
\* description, then the center mark (circle and label) and one path through
\* generateSpiralPoints(initialRadius, maxTheta).
SvgDocument(config, sp) ==
  [width |-> config.paperWidth, height |-> config.paperHeight,
   viewBox |-> <<0, 0, config.paperWidth, config.paperHeight>>,
   elements |-> <<"title", "desc", "centerMark", "spiral">>,
   path |-> [initialRadius |-> sp.initialRadius, maxTheta |-> sp.maxTheta,
             pointsPerTurn |-> DEFAULT_POINTS_PER_TURN,
             strokeWidth |-> config.lineWidth]]

\* The spiral the export computes from the configuration.
SpiralFor(config) ==
  calculateSpiralFromPaper(config.paperWidth * (LU \div CU),
                           config.paperHeight * (LU \div CU), config.turns)

\* downloadPNG(config) on an offscreen canvas whose 2D context is there (ctx)
\* or not, d being what drawSpiral does with a context.
PngExport(config, ctx, d) ==
  [hung |-> ctx /\ ~d.returns,
   last |-> IF ~ctx THEN [kind |-> "error", config |-> config,
                          message |-> "Could not get 2D context from canvas"]
            ELSE IF ~d.returns THEN [kind |-> "none", config |-> config]
            ELSE [kind |-> "download", config |-> config,
                  filename |-> generateFilename(config, d.result.pathLength, "png"),
                  image |-> d.canvas]]

\* downloadSVG(config), once the import of the mathematics has resolved.
SvgExport(config, sp) ==
  [hung |-> FALSE,
   last |-> [kind |-> "download", config |-> config,
             filename |-> generateFilename(config,
                                           calculateArcLength(sp.initialRadius, sp.maxTheta),
                                           "svg"),
             document |-> SvgDocument(config, sp)]]

\* printSpiral(config): the drawing at 300 dpi, then the print window, or the
\* alert when window.open returned null.
PrintExport(config, ctx, popup, d) ==
  [hung |-> ctx /\ ~d.returns,
   last |-> IF ~ctx THEN [kind |-> "error", config |-> config,
                          message |-> "Could not get 2D context from canvas"]
            ELSE IF ~d.returns THEN [kind |-> "none", config |-> config]
            ELSE IF ~popup THEN [kind |-> "alert", config |-> config,
                                 message |-> "Please allow popups to print the spiral"]
            ELSE [kind |-> "print", config |-> config,
                  page |-> <<config.paperWidth, config.paperHeight>>,
                  image |-> d.canvas]]

\* What an export leaves: its product and, when its drawing never returns, a
\* hung page.  The state manager, the page and its canvas are not touched.
Exported(out) ==
  /\ Ready
  /\ nEvents' = nEvents + 1
  /\ exported' = [count |-> exported.count + 1, last |-> out.last]
  /\ hung' = out.hung
  /\ UNCHANGED <<storage, canvas, ui, guide, solver, points, fib, render, gesture, fit, single, mgr>>

\* btn-png 'click' listener
DownloadPNGClickStoring ==
  \E ctx \in BOOLEAN :
    /\ Exported(PngExport(state.config, ctx, drawSpiral(state.config)))
    /\ state' = setDrawResult(state, drawSpiral([state.config EXCEPT !.dpi = 150 * CU]).result)
DownloadPNGClick ==
  \E ctx \in BOOLEAN :
    /\ Exported(PngExport(state.config, ctx, drawSpiral(state.config)))
    /\ state' = state

\* btn-svg 'click' listener
DownloadSVGClick ==
  /\ Exported(SvgExport(state.config, SpiralFor(state.config)))
  /\ state' = state

\* btn-print 'click' listener
PrintClick ==
  \E ctx \in BOOLEAN, popup \in BOOLEAN :
    /\ Exported(PrintExport(state.config, ctx, popup,
                            drawSpiral([state.config EXCEPT !.dpi = 300 * CU])))
    /\ state' = state

\* The export buttons, and the form edits that give them their configurations.
NextExport ==
  \/ FormInput \/ ResetClick
  \/ DownloadPNGClick \/ DownloadSVGClick \/ PrintClick

SpecExport == Init /\ [][NextExport]_vars

\* --------------------------------------------------- claims about the exports

\* The layers an SVG document holds, and those a raster render holds.
LayersOf(elements) ==
  {elements[k] : k \in 1..Len(elements)}
    \cap {"background", "grid", "guideCircles", "goldenRectangles", "spiral", "centerMark"}

\* C12: the SVG document of downloadSVG contains the same layers as the raster
\* render of the configuration: a background rectangle, the grid when showGrid
\* is on, guide circles when showGuideCircles is on, one path for the spiral
\* from the same point sequence, and the center mark.
C12_SvgSameLayersAsRaster ==
  (exported.last # Null /\ exported.last.kind = "download"
     /\ exported.last.filename.extension = "svg") =>
    /\ LayersOf(exported.last.document.elements) = LayersOf(SpiralLayers(exported.last.config))
    /\ exported.last.document.path.pointsPerTurn = DEFAULT_POINTS_PER_TURN

\* C13: downloadPNG, downloadSVG and printSpiral never change the application
\* state: configuration, draw result, zoom, pan and the stored entry are the
\* same after an export as before it, whether it succeeds or fails.
C13_ExportsLeaveState ==
  [][exported' # exported => (state' = state /\ storage' = storage)]_vars

C13_Witness ==
  /\ exported.count = 2 /\ exported.last.kind = "alert"
  /\ state.config.turns = 2 * CU

\* C14: when the 2D context cannot be acquired, drawSpiral ends the render
\* with an error surfaced to its caller and leaves everything as it was: the
\* canvas dimensions are unchanged, nothing is drawn, no calculated value is
\* updated.
C14_NoContextThrowsUntouched ==
  (render.pc # "idle" /\ render.pc # "enter" /\ ~render.ctx) =>
    /\ render.pc = "threw"
    /\ ~render.sized /\ render.log = <<>> /\ ~render.calculated

\* ----------------------------- the StateManager, method by method (lib/state.ts)

\* Calls of the methods followed from construction.
MaxCalls == 3

\* Items the constructor may find: those of the page load, and a stored dpi
\* of 0 (which the validation takes for no dpi at all).
StoreItems ==
  InitialItems
  \cup {[kind |-> "json", parsed |-> [config |-> [dpi |-> 0], isConfigCollapsed |-> TRUE]],
        [kind |-> "json", parsed |-> [config |-> [dpi |-> 150 * CU, turns |-> 2 * CU]]]}

\* What the handlers pass to updateConfig.
StorePartials ==
  {"turns" :> 0, "turns" :> 2 * CU, "dpi" :> 150 * CU, "dpi" :> 600 * CU,
   "showGrid" :> TRUE, "paperWidth" :> 0,
   [paperSize |-> "A4", paperWidth |-> PAPER_SIZES["A4"].width,
    paperHeight |-> PAPER_SIZES["A4"].height]}

InitStore ==
  /\ storage \in StoreItems
  /\ state = loadFromStorage(InitialState, storage)
  /\ ui = Listener(BlankPage, state)
  /\ canvas = BlankCanvas /\ hung = FALSE /\ nEvents = 0
  /\ exported = NoExport /\ gesture = NoGesture
  /\ guide = Idle /\ solver = Idle /\ points = Idle /\ fib = Idle /\ render = Idle
  /\ fit = Idle /\ single = Idle /\ mgr = Idle

\* A method that saves and notifies left st1.
SavedAndNotified(st1) ==
  /\ nEvents < MaxCalls
  /\ nEvents' = nEvents + 1
  /\ state' = st1
  /\ storage' = saveToStorage(st1)
  /\ ui' = Listener(ui, st1)
  /\ UNCHANGED <<canvas, hung, exported, gesture, guide, solver, points, fib, render, fit, single, mgr>>

\* A method that only notifies left st1.
Notified(st1) ==
  /\ nEvents < MaxCalls
  /\ nEvents' = nEvents + 1
  /\ state' = st1
  /\ ui' = Listener(ui, st1)
  /\ UNCHANGED <<storage, canvas, hung, exported, gesture, guide, solver, points, fib, render, fit, single, mgr>>

UpdateConfig == \E partial \in StorePartials : SavedAndNotified(updateConfig(state, partial))
ResetConfig == SavedAndNotified(resetConfig(state))
ToggleConfigCollapsed == SavedAndNotified(toggleConfigCollapsed(state))
SetDrawResult == Notified(setDrawResult(state, drawSpiral(DEFAULT_CONFIG).result))
SetZoom == \E zoom \in {5, 250, 1000} : Notified(setZoom(state, zoom))
SetPan == \E p \in {<<50, 0>>, <<0, 0 - 50>>} : Notified(setPan(state, p[1], p[2]))
ResetView == Notified(resetView(state))

SetDragging ==
  /\ nEvents < MaxCalls
  /\ nEvents' = nEvents + 1
  /\ state' = setDragging(state, ~state.isDragging)
  /\ UNCHANGED <<storage, ui, canvas, hung, exported, gesture, guide, solver, points, fib,
                 render, fit, single, mgr>>

NextStore ==
  \/ UpdateConfig \/ ResetConfig \/ ToggleConfigCollapsed \/ SetDrawResult
  \/ SetZoom \/ SetPan \/ ResetView \/ SetDragging

SpecStore == InitStore /\ [][NextStore]_vars

\* --------------------------------------------------- claims about the StateManager

\* A StateManager constructed now, loading the stored item.
Reloaded == loadFromStorage(InitialState, storage)

\* C16: settings persist. After any updateConfig, resetConfig and
\* toggleConfigCollapsed calls (dpi a supported value) a newly constructed
\* StateManager has the config and isConfigCollapsed of the current state, and
\* setZoom, setPan, setDragging and setDrawResult never make them differ.
C16_ReloadGivesCurrentSettings ==
  state.config.dpi \in DPI_OPTIONS =>
    /\ Reloaded.config = state.config
    /\ Reloaded.isConfigCollapsed = state.isConfigCollapsed

C16_Witness ==
  /\ nEvents = 3 /\ state.isConfigCollapsed /\ state.config.turns = 2 * CU
  /\ state.config.dpi = 600 * CU /\ storage.parsed.config.dpi = 600 * CU

\* C17: config.dpi is always one of 150, 300, 600: whatever the storage entry
\* holds at construction, an unsupported dpi is replaced by 300, and no later
\* update stores an unsupported value.
C17_DpiSupported == state.config.dpi \in DPI_OPTIONS

\* ------------------------------------------- zoom and pan listeners (lib/zoom.ts)

\* Zoom and pan events followed from page load.
MaxGestures == 4

\* ZOOM_STEP, ZOOM_MIN and ZOOM_MAX, in hundredths.
ZOOM_STEP == CU \div 10
ZOOM_MIN == CU \div 10
ZOOM_MAX == 5 * CU

\* a + b and a * (p / q) on numbers: NaN in gives NaN out, x / 0 is Infinity
\* (here a value above every zoom) for x > 0 and 0 / 0 is NaN.
JsAdd(a, b) == IF IsNaN(a) \/ IsNaN(b) THEN NaN ELSE a + b

TimesRatio(a, p, q) ==
  IF IsNaN(a) \/ (p = 0 /\ q = 0) THEN NaN
  ELSE IF q = 0 THEN MaxInt
  ELSE MulDiv(a, p, q)

\* Math.max(ZOOM_MIN, Math.min(ZOOM_MAX, zoom))
ClampZoom(zoom) == JsMax(ZOOM_MIN, JsMin(ZOOM_MAX, zoom))

\* Distances between two touches (getTouchDistance, pixels) and positions of
\* a pointer or of a single touch.
TouchDistances == {0, 100, 200}
PointerPositions == {<<0, 0>>, <<30, 0 - 20>>}

InitView ==
  /\ storage \in {NoItem, saveToStorage(InitialState)}
  /\ state = loadFromStorage(InitialState, storage)
  /\ ui = Listener(BlankPage, state)
  /\ canvas = BlankCanvas /\ hung = FALSE /\ nEvents = 0
  /\ exported = NoExport /\ gesture = NoGesture
  /\ guide = Idle /\ solver = Idle /\ points = Idle /\ fib = Idle /\ render = Idle
  /\ fit = Idle /\ single = Idle /\ mgr = Idle

\* The listener's variables after an event, with the event noted.
After(g, event) == [g EXCEPT !.event = event]

\* A press or a touch at p started a drag: the flag is set, and the source,
\* the position and the pan of the moment are noted.
Started(g, source, p, st) ==
  [g EXCEPT !.drag = [source |-> source, x |-> p[1], y |-> p[2],
                      panX |-> st.panX, panY |-> st.panY]]

\* A listener ran: it left the state st1 (notified unless only the dragging
\* flag was set) and its own variables g1.
Handled(st1, g1, notifies) ==
  /\ nEvents < MaxGestures
  /\ nEvents' = nEvents + 1
  /\ state' = st1
  /\ gesture' = g1
  /\ ui' = IF notifies THEN Listener(ui, st1) ELSE ui
  /\ UNCHANGED <<storage, canvas, hung, exported, guide, solver, points, fib, render, fit, single, mgr>>

\* 'wheel': one step in or out, clamped, then setZoom.
Wheel ==
  \E delta \in {0 - ZOOM_STEP, ZOOM_STEP} :
    Handled(setZoom(state, ClampZoom(JsAdd(state.zoom, delta))), After(gesture, <<"wheel">>),
            TRUE)

\* zoomIn() and zoomOut(), the buttons btn-zoom-in and btn-zoom-out
ZoomInClick ==
  Handled(setZoom(state, JsAdd(state.zoom, ZOOM_STEP)), After(gesture, <<"zoomIn">>), TRUE)
ZoomOutClick ==
  Handled(setZoom(state, JsAdd(state.zoom, 0 - ZOOM_STEP)), After(gesture, <<"zoomOut">>), TRUE)

\* resetView(), the button btn-zoom-reset
ZoomResetClick == Handled(resetView(state), After(gesture, <<"zoomReset">>), TRUE)

\* The 'keydown' listener for a key.
KeyHandled(key, isCtrl, g1) ==
  CASE key \in {"+", "="} /\ isCtrl -> Handled(setZoom(state, JsAdd(state.zoom, ZOOM_STEP)), g1, TRUE)
    [] key = "-" /\ isCtrl -> Handled(setZoom(state, JsAdd(state.zoom, 0 - ZOOM_STEP)), g1, TRUE)
    [] key = "0" /\ isCtrl -> Handled(resetView(state), g1, TRUE)
    [] key = "ArrowUp" -> Handled(setPan(state, state.panX, state.panY + 50), g1, TRUE)
    [] key = "ArrowDown" -> Handled(setPan(state, state.panX, state.panY - 50), g1, TRUE)
    [] key = "ArrowLeft" -> Handled(setPan(state, state.panX + 50, state.panY), g1, TRUE)
    [] key = "ArrowRight" -> Handled(setPan(state, state.panX - 50, state.panY), g1, TRUE)
    [] OTHER -> Handled(state, g1, FALSE)

\* 'keydown': Ctrl with + = - or 0, and the arrow keys.
KeyDown ==
  \E key \in {"+", "=", "-", "0", "ArrowUp", "ArrowDown", "ArrowLeft", "ArrowRight"},
     isCtrl \in BOOLEAN :
    KeyHandled(key, isCtrl, After(gesture, <<"keydown">>))

\* 'touchstart': a touch is added. With two touches on the screen their
\* distance is kept, with one a pan starts, with three nothing is done.
TouchStart ==
  \/ /\ gesture.touches = 1
     /\ \E distance \in TouchDistances :
          Handled(state, [After(gesture, <<"touchstart", 2>>)
                            EXCEPT !.touches = 2, !.touch.lastDistance = distance],
                  FALSE)
  \/ /\ gesture.touches = 0
     /\ \E p \in PointerPositions :
          Handled(setDragging(state, TRUE),
                  [Started(After(gesture, <<"touchstart", 1>>), "touch", p, state)
                     EXCEPT !.touches = 1,
                            !.touch.lastCenterX = p[1], !.touch.lastCenterY = p[2],
                            !.touch.startPanX = state.panX,
                            !.touch.startPanY = state.panY], FALSE)
  \/ /\ gesture.touches = 2
     /\ Handled(state, [After(gesture, <<"touchstart", 3>>) EXCEPT !.touches = 3], FALSE)

\* 'touchmove' with two touches: the zoom times distance / lastDistance, clamped.
PinchZoom(zoom, distance, lastDistance) == ClampZoom(TimesRatio(zoom, distance, lastDistance))

TouchMove ==
  \/ /\ gesture.touches = 2
     /\ \E distance \in TouchDistances :
          Handled(setZoom(state, PinchZoom(state.zoom, distance, gesture.touch.lastDistance)),
                  [After(gesture, <<"touchmove", 2>>) EXCEPT !.touch.lastDistance = distance],
                  TRUE)
  \/ /\ gesture.touches = 1
     /\ \E p \in PointerPositions :
          IF state.isDragging
          THEN Handled(setPan(state,
                              gesture.touch.startPanX + p[1] - gesture.touch.lastCenterX,
                              gesture.touch.startPanY + p[2] - gesture.touch.lastCenterY),
                       After(gesture, <<"touchmove", 1, p>>), TRUE)
          ELSE Handled(state, After(gesture, <<"touchmove", 1, p>>), FALSE)
  \/ /\ gesture.touches = 3
     /\ Handled(state, After(gesture, <<"touchmove", 3>>), FALSE)

\* 'touchend': a touch is lifted.
TouchEnd ==
  /\ gesture.touches > 0
  /\ Handled(setDragging(state, FALSE),
             [After(gesture, <<"touchend">>)
                EXCEPT !.touches = gesture.touches - 1, !.touch.lastDistance = 0],
             FALSE)

\* The buttons of a mouse: 0 is the left one.
MouseButtons == {0, 2}

\* 'mousedown' (the left button only), 'mousemove' and 'mouseup'
MouseDown ==
  \E p \in PointerPositions, button \in MouseButtons :
    IF button # 0
    THEN Handled(state, After(gesture, <<"mousedown", button>>), FALSE)
    ELSE Handled(setDragging(state, TRUE),
                 [Started(After(gesture, <<"mousedown", button>>), "mouse", p, state)
                    EXCEPT !.mouse = [startX |-> p[1], startY |-> p[2],
                                      startPanX |-> state.panX, startPanY |-> state.panY]],
                 FALSE)

MouseMove ==
  \E p \in PointerPositions :
    IF state.isDragging
    THEN Handled(setPan(state, gesture.mouse.startPanX + p[1] - gesture.mouse.startX,
                        gesture.mouse.startPanY + p[2] - gesture.mouse.startY),
                 After(gesture, <<"mousemove", p>>), TRUE)
    ELSE Handled(state, After(gesture, <<"mousemove", p>>), FALSE)

MouseUp == Handled(setDragging(state, FALSE), After(gesture, <<"mouseup">>), FALSE)

\* btn-reset: resetConfig resets zoom and pan as well, and saves.
ResetConfigClick ==
  /\ nEvents < MaxGestures
  /\ nEvents' = nEvents + 1
  /\ state' = resetConfig(state)
  /\ storage' = saveToStorage(state')
  /\ ui' = Listener(ui, state')
  /\ gesture' = After(gesture, <<"reset">>)
  /\ UNCHANGED <<canvas, hung, exported, guide, solver, points, fib, render, fit, single, mgr>>

NextView ==
  \/ Wheel \/ ZoomInClick \/ ZoomOutClick \/ ZoomResetClick \/ KeyDown
  \/ TouchStart \/ TouchMove \/ TouchEnd \/ MouseDown \/ MouseMove \/ MouseUp
  \/ ResetConfigClick

SpecView == InitView /\ [][NextView]_vars

\* --------------------------------------------------- claims about the view

\* C15: after any sequence of setZoom, zoomIn, zoomOut, wheel, pinch, keyboard
\* zoom, resetView and resetConfig operations, state.zoom is a number in
\* [0.1, 5.0].
C15_ZoomInRange ==
  ~IsNaN(state.zoom) /\ ZOOM_MIN <= state.zoom /\ state.zoom <= ZOOM_MAX

\* ------------------------- calculateSpiralFromPaper, statement by statement

\* The two calculateSpiralFromPaper of lib/spiral-math: the one that counts
\* quarter turns and the one that counts full turns.
FitVariants == {"quarter", "full"}

\* Paper dimensions (mm) and turns (hundredths) the fit is asked for: halves,
\* quarters and values in between.
FitPaper == {0, 148, 210, 297}
FitTurns == {50, 60, 75, 100, 110, 150, 250, 300}

\* The locals are assigned before they are read; until then they hold 0.
FitCall(variant, paperWidth, paperHeight, turns) ==
  [pc |-> "minDimension", variant |-> variant,
   paperWidth |-> paperWidth, paperHeight |-> paperHeight, turns |-> turns,
   minDimension |-> 0, finalRadius |-> 0, quarterTurns |-> 0,
   initialRadius |-> 0, maxTheta |-> 0]

FitCalls ==
  {FitCall(v, w * LU, h * LU, t) :
     v \in FitVariants, w \in FitPaper, h \in FitPaper, t \in FitTurns}

InitFit == AppIdle /\ OthersIdle("fit") /\ fit \in FitCalls

\* (minDimension / 2) * (1 - 2 * MARGIN_PERCENT)
FitRadius(minDimension) ==
  MulDiv(MulDiv(minDimension, 1, 2), Scale - 2 * MARGIN_PERCENT, Scale)

\* finalRadius / Math.exp(GOLDEN_B * maxTheta)
OverExp(finalRadius, maxTheta) == PhiExpMul(finalRadius, 0 - maxTheta, HalfPi)

\* const minDimension = Math.min(paperWidth, paperHeight)
FitMinDimension ==
  /\ fit.pc = "minDimension"
  /\ fit' = [fit EXCEPT !.pc = "finalRadius",
                        !.minDimension = Min(fit.paperWidth, fit.paperHeight)]
  /\ UNCHANGED <<AppVars, guide, solver, points, fib, render, single, mgr>>

\* const finalRadius = (minDimension / 2) * (1 - 2 * MARGIN_PERCENT)
FitFinalRadius ==
  /\ fit.pc = "finalRadius"
  /\ fit' = [fit EXCEPT !.pc = IF fit.variant = "quarter" THEN "quarterTurns" ELSE "maxTheta",
                        !.finalRadius = FitRadius(fit.minDimension)]
  /\ UNCHANGED <<AppVars, guide, solver, points, fib, render, single, mgr>>

\* const quarterTurns = Math.round(turns * 4)
FitQuarterTurns ==
  /\ fit.pc = "quarterTurns"
  /\ fit' = [fit EXCEPT !.pc = "initialRadius",
                        !.quarterTurns = RoundDiv(fit.turns * 4, CU)]
  /\ UNCHANGED <<AppVars, guide, solver, points, fib, render, single, mgr>>

\* const initialRadius = finalRadius / Math.pow(PHI, quarterTurns), or
\* const initialRadius = finalRadius / Math.exp(GOLDEN_B * maxTheta)
FitInitialRadius ==
  /\ fit.pc = "initialRadius"
  /\ fit' = [fit EXCEPT !.pc = IF fit.variant = "quarter" THEN "maxTheta" ELSE "return",
                        !.initialRadius =
                           IF fit.variant = "quarter"
                           THEN PhiPowMul(fit.finalRadius, 0 - fit.quarterTurns)
                           ELSE OverExp(fit.finalRadius, fit.maxTheta)]
  /\ UNCHANGED <<AppVars, guide, solver, points, fib, render, single, mgr>>

\* const maxTheta = quarterTurns * (Math.PI / 2), or
\* const maxTheta = turns * 2 * Math.PI
FitMaxTheta ==
  /\ fit.pc = "maxTheta"
  /\ fit' = [fit EXCEPT !.pc = IF fit.variant = "quarter" THEN "return" ELSE "initialRadius",
                        !.maxTheta = IF fit.variant = "quarter"
                                     THEN fit.quarterTurns * HalfPi
                                     ELSE MulDiv(fit.turns, TwoPi, CU)]
  /\ UNCHANGED <<AppVars, guide, solver, points, fib, render, single, mgr>>

\* return { initialRadius, finalRadius, maxTheta, ... }
FitReturn ==
  /\ fit.pc = "return"
  /\ fit' = [fit EXCEPT !.pc = "returned"]
  /\ UNCHANGED <<AppVars, guide, solver, points, fib, render, single, mgr>>

NextFit ==
  FitMinDimension \/ FitFinalRadius \/ FitQuarterTurns \/ FitInitialRadius \/ FitMaxTheta
    \/ FitReturn

SpecFit == InitFit /\ [][NextFit]_vars

\* ------------------------------------------------- claims about the paper fit

\* C18: for every turns value between 0.5 and 20, multiple of a quarter or
\* not, calculateSpiralFromPaper returns maxTheta = turns * 2 pi and
\* finalRadius = 0.5 * min(paperWidth, paperHeight) * 0.9 whatever the turns.
C18_MaxThetaIsTurnsTimesFullTurn ==
  fit.pc = "returned" =>
    /\ fit.maxTheta = MulDiv(fit.turns, TwoPi, CU)
    /\ fit.finalRadius = MulDiv(Min(fit.paperWidth, fit.paperHeight), 45, CU)

\* Two lengths that agree to the resolution of the arithmetic of this
\* module, one part in a thousand.
SameLength(a, b) == Abs(a - b) <= Abs(b) \div 1000

\* C19: the geometry calculateSpiralFromPaper returns is self-consistent:
\* goldenSpiralRadius(maxTheta, initialRadius) is finalRadius, for every
\* paper size and turns value, so the spiral ends on the fitted radius.
C19_FitEndsOnFinalRadius ==
  fit.pc = "returned" =>
    SameLength(goldenSpiralRadius(fit.maxTheta, fit.initialRadius), fit.finalRadius)

\* A fit of a real sheet whose turns are no multiple of a quarter has returned.
C19_Witness ==
  /\ fit.pc = "returned" /\ fit.turns = 60
  /\ fit.finalRadius > 0 /\ fit.initialRadius > 0 /\ fit.initialRadius < fit.finalRadius

\* C20: one growth convention everywhere: goldenSpiralRadius(2 pi, r0) is
\* r0 * PHI (15 mm becomes about 24.27 mm after one turn), and the radius
\* formula of the single-file application gives the same radius.
C20_PhiPerFullTurnEverywhere ==
  (guide.pc = "test" /\ guide.r = guide.initialRadius) =>
    /\ SameLength(goldenSpiralRadius(TwoPi, guide.initialRadius), MulPhi(guide.initialRadius))
    /\ SameLength(goldenSpiralRadius(TwoPi, guide.initialRadius),
                  goldenSpiralRadiusMain(TwoPi, guide.initialRadius))

\* -------------------- single-file application (main.ts): module state, handlers

\* Either solver run to its return.
RECURSIVE SolveFrom(_)
SolveFrom(s) ==
  IF s.pc = "done" THEN s.result
  ELSE IF s.high - s.low > SolverThreshold(s.kind)
  THEN SolveFrom(BisectAt(s, (s.low + s.high) \div 2))
  ELSE (s.low + s.high) \div 2

findInitialRadiusForPathLength(targetLength, turns) ==
  SolveFrom(RadiusCall(targetLength, turns, 0))

findThetaForPathLength(initialRadius, targetLength) ==
  SolveFrom(ThetaCall(initialRadius, targetLength))

\* DEFAULT_CONFIG of main.ts: lengths in MLU, turns in hundredths, the canvas
\* side in mm, the dpi as a number (guideCircleRadii never changes).
MainDefaultConfig ==
  [initialRadius |-> 15 * MLU, lineWidth |-> 2 * MLU, totalPathLength |-> 3330 * MLU,
   targetTurns |-> (15 * CU) \div 2, canvasSizeMM |-> 550, dpi |-> 300,
   useFixedTurns |-> TRUE]

\* canvas.width = (mm / 25.4) * dpi, which the canvas truncates to an integer.
CanvasPixels(mm, dpi) == (mm * dpi * 10) \div MM_PER_INCH

\* The module variables after the declarations of main.ts, on a page whose
\* canvas gives a 2D context or not, in a container of the given size (px).
\* Zooms are in 1e-4; a canvas is 300 pixels wide until it is sized.
ModuleState(hasContext, container) ==
  [hasContext |-> hasContext, container |-> container, events |-> 0,
   config |-> MainDefaultConfig, calculatedPathLength |-> 0, finalRadius |-> 0,
   effectiveRadius |-> 15 * MLU, canvasWidth |-> 300, drawn |-> Null, svg |-> Null,
   fitPending |-> TRUE,
   currentZoom |-> Scale, panX |-> 0, panY |-> 0, isDragging |-> FALSE,
   lastMouseX |-> 0, lastMouseY |-> 0,
   touches |-> 0, touchStartDistance |-> 0, touchStartZoom |-> Scale]

\* The geometry of a spiral: what generateSpiralPoints is given, and the
\* radius of the outermost guide circle.
Geometry(initialRadius, maxTheta, finalRadius) ==
  [initialRadius |-> initialRadius, maxTheta |-> maxTheta, finalRadius |-> finalRadius]

\* The end of drawSpiral for the initial radius and angle of its branch.
DrawnWith(m, initialRadius, maxTheta, finalRadius) ==
  [m EXCEPT !.canvasWidth = CanvasPixels(m.config.canvasSizeMM, m.config.dpi),
            !.calculatedPathLength = calculateArcLengthMain(initialRadius, maxTheta),
            !.finalRadius = finalRadius,
            !.effectiveRadius = initialRadius,
            !.drawn = Geometry(initialRadius, maxTheta, finalRadius)]

DrawnAt(m, initialRadius, maxTheta) ==
  DrawnWith(m, initialRadius, maxTheta, goldenSpiralRadiusMain(maxTheta, initialRadius))

\* drawSpiral(canvas, config) of main.ts
drawSpiralMain(m) ==
  IF ~m.hasContext THEN m
  ELSE IF m.config.useFixedTurns
  THEN DrawnAt(m, findInitialRadiusForPathLength(m.config.totalPathLength, m.config.targetTurns),
               MulDiv(m.config.targetTurns, TwoPi, CU))
  ELSE DrawnAt(m, m.config.initialRadius,
               findThetaForPathLength(m.config.initialRadius, m.config.totalPathLength))

\* The geometry a render computes from a configuration and nothing else.
GeometryOf(config) == drawSpiralMain([ModuleState(TRUE, <<0, 0>>) EXCEPT !.config = config]).drawn

\* The SVG document: the configuration it was written for (size, stroke
\* width, file name) and the geometry of its path and guide circles.
SvgFile(config, geometry) == [config |-> config, geometry |-> geometry]

\* downloadSVG: the path from effectiveRadius (or config.initialRadius), the
\* guide circles [...config.guideCircleRadii, finalRadius].
downloadSVGMain(m) ==
  [m EXCEPT !.svg =
     SvgFile(m.config,
       IF m.config.useFixedTurns
       THEN Geometry(m.effectiveRadius, MulDiv(m.config.targetTurns, TwoPi, CU), m.finalRadius)
       ELSE Geometry(m.config.initialRadius,
                     findThetaForPathLength(m.config.initialRadius, m.config.totalPathLength),
                     m.finalRadius))]

\* Math.min(scaleX, scaleY, 1) for a container and a canvas width, in 1e-4.
FitZoom(container, canvasWidth) ==
  Min(Min(MulDiv(container[1] - 40, Scale, canvasWidth),
          MulDiv(container[2] - 40, Scale, canvasWidth)), Scale)

\* fitToView
fitToView(m) ==
  [m EXCEPT !.currentZoom = FitZoom(m.container, m.canvasWidth), !.panX = 0, !.panY = 0]

\* Math.max(0.05, Math.min(5, zoom))
ClampZoomMain(zoom) == JsMax(Scale \div 20, JsMin(5 * Scale, zoom))

\* setZoom of main.ts
setZoomMain(m, zoom) == [m EXCEPT !.currentZoom = ClampZoomMain(zoom)]

\* Math.ceil((expectedFinalRadius * 2 + 40) / 10) * 10
CanvasSizeFor(expectedFinalRadius) == CeilDiv(expectedFinalRadius * 2 + 40 * MLU, 10 * MLU) * 10

\* updateConfigFromInputs for the values of the four inputs
updateConfigFromInputs(m, in) ==
  [m EXCEPT !.config =
     [m.config EXCEPT !.initialRadius = in.initialRadius,
                      !.totalPathLength = in.pathLength,
                      !.lineWidth = in.lineWidth,
                      !.dpi = in.dpi,
                      !.canvasSizeMM =
                         CanvasSizeFor(goldenSpiralRadiusMain(
                           findThetaForPathLength(in.initialRadius, in.pathLength),
                           in.initialRadius))]]

\* The 'click' listener of regenerate-btn: the inputs, the render, the fit.
Regenerated(m, in) == fitToView(drawSpiralMain(updateConfigFromInputs(m, in)))

\* init(): the listeners, then the initial render.
PageLoaded(hasContext, container) == drawSpiralMain(ModuleState(hasContext, container))

\* Values of the inputs (MLU; dpi of the selector) and container sizes (px).
RegenerateInputs ==
  [initialRadius : {15 * MLU}, pathLength : {1000 * MLU, 3330 * MLU},
   lineWidth : {2 * MLU}, dpi : {150, 300, 600}]
Containers == {<<800, 600>>, <<1920, 1080>>}

InitMain ==
  /\ AppIdle /\ OthersIdle("single")
  /\ single \in {PageLoaded(c, box) : c \in BOOLEAN, box \in Containers}

\* One more event of the page.
MainEvent(m) ==
  /\ single.events < MaxEvents
  /\ single' = [m EXCEPT !.events = single.events + 1]
  /\ UNCHANGED <<AppVars, guide, solver, points, fib, render, fit, mgr>>

RegenerateClick == \E in \in RegenerateInputs : MainEvent(Regenerated(single, in))

\* The 'change' listener of the dpi selector: config.dpi and nothing else.
DpiChange ==
  \E dpi \in {150, 300, 600} : MainEvent([single EXCEPT !.config.dpi = dpi])

DownloadSVGClickMain == MainEvent(downloadSVGMain(single))

\* setTimeout(fitToView, 100) of setupZoomControls
FitTimer ==
  /\ single.fitPending
  /\ MainEvent([fitToView(single) EXCEPT !.fitPending = FALSE])

NextMain == RegenerateClick \/ DpiChange \/ DownloadSVGClickMain \/ FitTimer

SpecMain == InitMain /\ [][NextMain]_vars

\* ------------------------- zoom and pan of the single-file application (main.ts)

\* Zoom and pan events followed from a loaded or regenerated page.
MaxZoomEvents == 3

InitMainView ==
  /\ AppIdle /\ OthersIdle("single")
  /\ single \in {PageLoaded(c, box) : c \in BOOLEAN, box \in Containers}
                  \cup {Regenerated(PageLoaded(c, box), in) :
                          c \in BOOLEAN, box \in Containers, in \in RegenerateInputs}

\* One more zoom or pan event.
ViewEvent(m) ==
  /\ single.events < MaxZoomEvents
  /\ single' = [m EXCEPT !.events = single.events + 1]
  /\ UNCHANGED <<AppVars, guide, solver, points, fib, render, fit, mgr>>

\* a * f for a factor f in 1e-4 and a / f
Times(a, f) == IF IsNaN(a) THEN NaN ELSE MulDiv(a, f, Scale)
Over(a, f) == IF IsNaN(a) THEN NaN ELSE MulDiv(a, Scale, f)

\* mouse - (mouse - pan) * (newZoom / currentZoom)
ZoomedPan(mouse, pan, newZoom, currentZoom) ==
  IF IsNaN(pan) \/ IsNaN(newZoom) \/ IsNaN(currentZoom) THEN NaN
  ELSE mouse - MulDiv(mouse - pan, newZoom, currentZoom)

\* zoom-in-btn and zoom-out-btn: setZoom(currentZoom * 1.25), setZoom(currentZoom / 1.25)
ZoomInClickMain == ViewEvent(setZoomMain(single, Times(single.currentZoom, 12500)))
ZoomOutClickMain == ViewEvent(setZoomMain(single, Over(single.currentZoom, 12500)))

\* zoom-100-btn: setZoom(1), panX = 0, panY = 0
Zoom100Click == ViewEvent([setZoomMain(single, Scale) EXCEPT !.panX = 0, !.panY = 0])

\* zoom-fit-btn, 'dblclick' and the timer of setupZoomControls: fitToView
FitToView ==
  ViewEvent([fitToView(single) EXCEPT !.fitPending = FALSE])

\* The 'wheel' listener at a mouse position and for a factor 0.9 or 1.1.
Wheeled(m, p, newZoom) ==
  [m EXCEPT !.panX = ZoomedPan(p[1], m.panX, newZoom, m.currentZoom),
            !.panY = ZoomedPan(p[2], m.panY, newZoom, m.currentZoom),
            !.currentZoom = newZoom]

WheelMain ==
  \E p \in PointerPositions, delta \in {9000, 11000} :
    ViewEvent(Wheeled(single, p, ClampZoomMain(Times(single.currentZoom, delta))))

\* 'touchstart': two touches start a pinch, one touch a drag.
TouchStartMain ==
  \/ /\ single.touches = 1
     /\ \E distance \in TouchDistances :
          ViewEvent([single EXCEPT !.touches = 2, !.touchStartDistance = distance,
                                   !.touchStartZoom = single.currentZoom])
  \/ /\ single.touches = 0
     /\ \E p \in PointerPositions :
          ViewEvent([single EXCEPT !.touches = 1, !.isDragging = TRUE,
                                   !.lastMouseX = p[1], !.lastMouseY = p[2]])

\* panX += deltaX; panY += deltaY; the last position is the new one.
Dragged(m, p) ==
  [m EXCEPT !.panX = JsAdd(m.panX, p[1] - m.lastMouseX),
            !.panY = JsAdd(m.panY, p[2] - m.lastMouseY),
            !.lastMouseX = p[1], !.lastMouseY = p[2]]

\* 'touchmove': setZoom(touchStartZoom * distance / touchStartDistance) for two
\* touches, a pan for one touch of a drag.
TouchMoveMain ==
  \/ /\ single.touches = 2
     /\ \E distance \in TouchDistances :
          ViewEvent(setZoomMain(single, TimesRatio(single.touchStartZoom, distance,
                                                   single.touchStartDistance)))
  \/ /\ single.touches = 1
     /\ \E p \in PointerPositions :
          ViewEvent(IF single.isDragging THEN Dragged(single, p) ELSE single)

\* 'touchend': isDragging = false
TouchEndMain ==
  /\ single.touches > 0
  /\ ViewEvent([single EXCEPT !.touches = single.touches - 1, !.isDragging = FALSE])

\* 'mousedown', 'mousemove' and 'mouseup'
MouseDownMain ==
  \E p \in PointerPositions :
    ViewEvent([single EXCEPT !.isDragging = TRUE, !.lastMouseX = p[1], !.lastMouseY = p[2]])

MouseMoveMain ==
  \E p \in PointerPositions :
    ViewEvent(IF single.isDragging THEN Dragged(single, p) ELSE single)

MouseUpMain == ViewEvent([single EXCEPT !.isDragging = FALSE])

NextMainView ==
  \/ ZoomInClickMain \/ ZoomOutClickMain \/ Zoom100Click \/ FitToView \/ WheelMain
  \/ TouchStartMain \/ TouchMoveMain \/ TouchEndMain
  \/ MouseDownMain \/ MouseMoveMain \/ MouseUpMain

SpecMainView == InitMainView /\ [][NextMainView]_vars

\* --------------------------------- claims about the single-file application

\* C21: rendering and export are stateless recomputations: an export has the
\* geometry (initial radius, final radius, angle, hence the points) that a
\* render computes from the same configuration, whatever happened before.
C21_ExportIsFunctionOfConfig ==
  single.svg # Null => single.svg.geometry = GeometryOf(single.svg.config)

\* ---------------- the StateManager's objects and listeners (lib/state.ts)

\* Functions passed to subscribe.
Listeners == {1, 2}

\* The address of the DEFAULT_CONFIG object.
DefaultConfigAt == 1

\* The state object at an address, its config read through the reference.
Deref(heap, a) == [heap[a] EXCEPT !.config = heap[heap[a].config]]

\* this.state, read through its references.
StateOf(m) == Deref(m.heap, m.state)

\* this.state = { ...this.state, ... }: a new state object that refers to the
\* config object of the old one, written over the old state object instead.
SharingInPlace(m, st1) ==
  [m EXCEPT !.heap = [m.heap EXCEPT ![m.state] = [st1 EXCEPT !.config = m.heap[m.state].config]]]

\* this.state = { ...this.state, ... }: a new state object that refers to the
\* config object of the old one.
Sharing(m, st1) ==
  [m EXCEPT !.heap = Append(m.heap, [st1 EXCEPT !.config = m.heap[m.state].config]),
            !.state = Len(m.heap) + 1]

\* this.state = { ...this.state, config: { ... }, ... }: a new config object
\* and a new state object that refers to it.
Replacing(m, st1) ==
  [m EXCEPT !.heap = m.heap \o <<st1.config, [st1 EXCEPT !.config = Len(m.heap) + 1]>>,
            !.state = Len(m.heap) + 2]

\* The constructor: the literal with a copy of DEFAULT_CONFIG, then
\* loadFromStorage, which assigns this.state only when it finds a usable item.
Constructed(item) ==
  IF item.kind # "json"
  THEN [heap |-> <<DEFAULT_CONFIG, DEFAULT_CONFIG, [InitialState EXCEPT !.config = 2]>>,
        state |-> 3]
  ELSE [heap |-> <<DEFAULT_CONFIG, DEFAULT_CONFIG, [InitialState EXCEPT !.config = 2],
                   loadFromStorage(InitialState, item).config,
                   [loadFromStorage(InitialState, item) EXCEPT !.config = 4]>>,
        state |-> 5]

\* No call of a listener yet.
NoCalls == [l \in Listeners |-> [count |-> 0, last |-> 0]]

NewManager(item) ==
  [heap |-> Constructed(item).heap, state |-> Constructed(item).state,
   listeners |-> {}, calls |-> NoCalls, op |-> <<"constructor">>, n |-> 0]

\* listener(this.state)
Called(m, l) ==
  [m EXCEPT !.calls[l] = [count |-> m.calls[l].count + 1, last |-> m.state]]

\* notify(): every listener of the set is called with this.state.
notify(m) ==
  [m EXCEPT !.calls = [l \in Listeners |->
                         IF l \in m.listeners
                         THEN [count |-> m.calls[l].count + 1, last |-> m.state]
                         ELSE m.calls[l]]]

\* subscribe(listener): the listener joins the set and is called at once.
subscribe(m, l) == Called([m EXCEPT !.listeners = m.listeners \cup {l}], l)

\* An unsubscribe function that leaves the set as it is.
unsubscribeNothing(m, l) == m

\* The function subscribe returned: this.listeners.delete(listener)
unsubscribe(m, l) == [m EXCEPT !.listeners = m.listeners \ {l}]

InitManager ==
  /\ storage \in StoreItems
  /\ mgr = NewManager(storage)
  /\ state = InitialState /\ canvas = BlankCanvas /\ ui = BlankPage
  /\ hung = FALSE /\ nEvents = 0 /\ exported = NoExport /\ gesture = NoGesture
  /\ OthersIdle("mgr")

\* A call of a method or of a function of the page left m1.
ManagerCall(m1, op) ==
  /\ mgr.n < MaxCalls
  /\ mgr' = [m1 EXCEPT !.op = op, !.n = mgr.n + 1]
  /\ UNCHANGED <<state, canvas, ui, hung, nEvents, exported, gesture,
                 guide, solver, points, fib, render, fit, single>>

\* A method that saves and notifies, and one that only notifies.
Saving(m1, op) == ManagerCall(notify(m1), op) /\ storage' = saveToStorage(StateOf(m1))
Notifying(m1, op) == ManagerCall(notify(m1), op) /\ UNCHANGED storage

MgrUpdateConfig ==
  \E partial \in StorePartials :
    Saving(Replacing(mgr, updateConfig(StateOf(mgr), partial)), <<"updateConfig">>)

\* resetConfig reads DEFAULT_CONFIG through its object.
MgrResetConfig ==
  Saving(Replacing(mgr, [resetConfig(StateOf(mgr)) EXCEPT !.config = mgr.heap[DefaultConfigAt]]),
         <<"resetConfig">>)

MgrToggleConfigCollapsed ==
  Saving(Sharing(mgr, toggleConfigCollapsed(StateOf(mgr))), <<"toggleConfigCollapsed">>)

MgrSetDrawResult ==
  Notifying(Sharing(mgr, setDrawResult(StateOf(mgr), drawSpiral(DEFAULT_CONFIG).result)),
            <<"setDrawResult">>)

MgrSetZoom ==
  \E zoom \in {5, 250} : Notifying(Sharing(mgr, setZoom(StateOf(mgr), zoom)), <<"setZoom">>)

MgrSetPan == Notifying(Sharing(mgr, setPan(StateOf(mgr), 50, 0 - 50)), <<"setPan">>)

MgrResetView == Notifying(Sharing(mgr, resetView(StateOf(mgr))), <<"resetView">>)

\* setDragging installs the new state and calls nobody.
MgrSetDragging ==
  /\ ManagerCall(Sharing(mgr, setDragging(StateOf(mgr), ~StateOf(mgr).isDragging)),
                 <<"setDragging">>)
  /\ UNCHANGED storage

Subscribe ==
  \E l \in Listeners : ManagerCall(subscribe(mgr, l), <<"subscribe", l>>) /\ UNCHANGED storage

\* A function that subscribe returned earlier is called.
Unsubscribe ==
  \E l \in Listeners :
    /\ mgr.calls[l].count > 0
    /\ ManagerCall(unsubscribe(mgr, l), <<"unsubscribe", l>>)
    /\ UNCHANGED storage

NextManager ==
  \/ MgrUpdateConfig \/ MgrResetConfig \/ MgrToggleConfigCollapsed \/ MgrSetDrawResult
  \/ MgrSetZoom \/ MgrSetPan \/ MgrResetView \/ MgrSetDragging
  \/ Subscribe \/ Unsubscribe

SpecManager == InitManager /\ [][NextManager]_vars

\* ------------------------------------ claims about listeners and objects

NotifyingMutators ==
  {"updateConfig", "resetConfig", "setDrawResult", "setZoom", "setPan", "resetView",
   "toggleConfigCollapsed"}

\* The calls a listener received in a step.
NewCalls(l) == mgr'.calls[l].count - mgr.calls[l].count

\* C22: a listener is called once at subscribe with the current state, once
\* after each later notifying mutator with the state it installed, never for
\* setDragging and never after its unsubscribe function has run.
C22_ListenerCalledOncePerChange ==
  [][\A l \in Listeners :
       IF mgr'.op = <<"subscribe", l>>
       THEN NewCalls(l) = 1 /\ mgr'.calls[l].last = mgr.state /\ mgr'.state = mgr.state
       ELSE IF mgr'.op[1] \in NotifyingMutators /\ l \in mgr.listeners
       THEN NewCalls(l) = 1 /\ mgr'.calls[l].last = mgr'.state /\ mgr'.state # mgr.state
       ELSE /\ NewCalls(l) = 0
            /\ mgr'.op = <<"unsubscribe", l>> => l \notin mgr'.listeners]_vars

\* A listener was subscribed, notified, unsubscribed and then passed over.
C22_Witness ==
  /\ mgr # Idle /\ mgr.n = 3 /\ mgr.op[1] \in NotifyingMutators
  /\ mgr.listeners = {} /\ mgr.calls[1].count = 1 /\ mgr.calls[2].count = 0

\* C23: state values are never mutated in place: every state or config
\* object that exists keeps all its field values through every later
\* mutator call, and DEFAULT_CONFIG is never altered.
C23_ObjectsNeverMutated ==
  [][/\ \A a \in 1..Len(mgr.heap) : mgr'.heap[a] = mgr.heap[a]
     /\ mgr'.heap[DefaultConfigAt] = DEFAULT_CONFIG]_vars

\* A listener holds the state object it was called with at subscribe while
\* mutators have installed two newer ones.
C23_Witness ==
  /\ mgr # Idle /\ mgr.n = 3 /\ mgr.calls[1].count = 3
  /\ mgr.state > Len(NewManager(storage).heap) /\ mgr.op = <<"updateConfig">>

\* The fields of a state other than the configuration and the view.
Rest(st) == <<st.drawResult, st.isDragging, st.isConfigCollapsed>>

\* C24: from any reachable state resetConfig yields the default config,
\* zoom 1.0 and pan (0, 0) and leaves drawResult, isDragging and
\* isConfigCollapsed as they were; resetView changes only zoom and pan.
C24_ResetsKeepTheRest ==
  [][/\ mgr'.op = <<"resetConfig">> =>
          /\ StateOf(mgr').config = DEFAULT_CONFIG
          /\ StateOf(mgr').zoom = CU /\ StateOf(mgr').panX = 0 /\ StateOf(mgr').panY = 0
          /\ Rest(StateOf(mgr')) = Rest(StateOf(mgr))
     /\ mgr'.op = <<"resetView">> =>
          /\ StateOf(mgr').config = StateOf(mgr).config
          /\ StateOf(mgr').zoom = CU /\ StateOf(mgr').panX = 0 /\ StateOf(mgr').panY = 0
          /\ Rest(StateOf(mgr')) = Rest(StateOf(mgr))]_vars

\* resetConfig was called on a state with another config, a zoom, a pan, a
\* draw result and a collapsed panel.
C24_Witness ==
  /\ mgr # Idle /\ mgr.op = <<"resetConfig">> /\ mgr.n = 3
  /\ StateOf(mgr).drawResult # Null /\ StateOf(mgr).isConfigCollapsed
  /\ mgr.heap[mgr.state - 2].zoom # CU

\* ------------------ exports that wait for their module (lib/export.ts)

\* Exports asked for, done or waiting.
MaxExports == 2

\* Changes of the configuration while exports are asked for and produced.
MaxChanges == 1

\* downloadSVG(config) and printSpiral(config) return at once: the rest runs
\* when import('./math') has resolved.  A waiting export holds the config
\* object it was called with; asked notes the values that object had then.
Waiting(kind, m) ==
  [kind |-> kind, config |-> m.heap[m.state].config, asked |-> StateOf(m).config]

NoExports == [count |-> 0, last |-> Null, asked |-> Null, pending |-> <<>>]

InitAsync ==
  /\ storage \in {NoItem, saveToStorage([InitialState EXCEPT !.config.showGrid = TRUE])}
  /\ mgr = NewManager(storage)
  /\ exported = NoExports
  /\ state = InitialState /\ canvas = BlankCanvas /\ ui = BlankPage
  /\ hung = FALSE /\ nEvents = 0 /\ gesture = NoGesture
  /\ OthersIdle("mgr")

\* The btn-svg and btn-print 'click' listeners: the export is called with
\* state.getConfig().
ExportClick ==
  \E kind \in {"svg", "print"} :
    /\ exported.count + Len(exported.pending) < MaxExports
    /\ exported' = [exported EXCEPT !.pending = Append(@, Waiting(kind, mgr))]
    /\ UNCHANGED <<state, storage, canvas, ui, hung, nEvents, gesture,
                   guide, solver, points, fib, render, fit, single, mgr>>

\* The config a callback would read from the state manager when it runs.
CurrentConfig(m, item) == StateOf(m).config

\* The config a callback reads: the parameter of the export it belongs to.
Captured(m, item) == m.heap[item.config]

\* What the callback of an export produces for its config.
Produced(kind, config, ctx, popup) ==
  IF kind = "svg" THEN SvgExport(config, SpiralFor(config))
  ELSE PrintExport(config, ctx, popup, drawSpiral([config EXCEPT !.dpi = 300 * CU]))

Remove(s, i) == SubSeq(s, 1, i - 1) \o SubSeq(s, i + 1, Len(s))

\* The module is there for a waiting export: its callback runs.
Finished(i, out) ==
  /\ exported' = [count |-> exported.count + 1, last |-> out.last,
                  asked |-> exported.pending[i].asked,
                  pending |-> Remove(exported.pending, i)]
  /\ hung' = (hung \/ out.hung)
  /\ UNCHANGED <<state, storage, canvas, ui, nEvents, gesture,
                 guide, solver, points, fib, render, fit, single, mgr>>

ModuleLoaded ==
  \E i \in 1..Len(exported.pending), ctx \in BOOLEAN, popup \in BOOLEAN :
    /\ ~hung
    /\ Finished(i, Produced(exported.pending[i].kind, Captured(mgr, exported.pending[i]),
                            ctx, popup))

\* updateConfig or resetConfig runs between the clicks and the callbacks.
ConfigChanged == mgr.n < MaxChanges /\ (MgrUpdateConfig \/ MgrResetConfig)

NextAsync == ConfigChanged \/ ExportClick \/ ModuleLoaded

SpecAsync == InitAsync /\ [][NextAsync]_vars

\* C28: an export serializes the configuration that was current when it was
\* requested, also when updateConfig or resetConfig ran before its callback.
C28_ExportUsesConfigOfCall ==
  (exported.count > 0 /\ exported.last # Null) => exported.last.config = exported.asked

\* A document was produced after the configuration had changed under it.
C28_Witness ==
  /\ exported.count > 0 /\ exported.last # Null
  /\ exported.last.kind \in {"download", "print"}
  /\ exported.asked # StateOf(mgr).config

\* The last event was a 'mousemove' or a 'touchmove' of a single touch.
MoveEvent(e) == e[1] = "mousemove" \/ (e[1] = "touchmove" /\ e[2] = 1)

\* C25: pointer movement pans only during a drag: a move changes the pan only
\* while isDragging is true; a left-button mousedown or a single-touch
\* touchstart sets isDragging, another button does not; after mouseup or
\* touchend isDragging is false.
C25_PanOnlyWhileDragging ==
  [][/\ (MoveEvent(gesture'.event) /\ ~state.isDragging) =>
          (state'.panX = state.panX /\ state'.panY = state.panY)
     /\ (gesture'.event[1] = "mousedown" /\ gesture'.event[2] = 0) => state'.isDragging
     /\ (gesture'.event[1] = "touchstart" /\ gesture'.event[2] = 1) => state'.isDragging
     /\ (gesture'.event[1] = "mousedown" /\ gesture'.event[2] # 0) =>
          state'.isDragging = state.isDragging
     /\ gesture'.event[1] \in {"mouseup", "touchend"} => ~state'.isDragging]_vars

\* A drag panned, the button was released, and a further move left the pan.
C25_Witness ==
  /\ nEvents = 4 /\ gesture.event[1] = "mousemove" /\ ~state.isDragging
  /\ state.panX = 30 /\ gesture.drag.source = "mouse"

\* C26: a drag started by one input source is moved only by that source:
\* after each move event of a drag the pan is the pan recorded when the drag
\* started plus the displacement of the pointer that started it.
C26_DragMovedByItsSource ==
  (MoveEvent(gesture.event) /\ state.isDragging) =>
    /\ gesture.drag.source = (IF gesture.event[1] = "mousemove" THEN "mouse" ELSE "touch")
    /\ state.panX = gesture.drag.panX + gesture.event[Len(gesture.event)][1] - gesture.drag.x
    /\ state.panY = gesture.drag.panY + gesture.event[Len(gesture.event)][2] - gesture.drag.y

\* C30: in the single-file application currentZoom stays within [0.05, 5]
\* after any zoom-in, zoom-out, 1:1, wheel, pinch, fit-to-view or
\* double-click.
C30_MainZoomInRange ==
  single.events > 0 =>
    /\ ~IsNaN(single.currentZoom)
    /\ Scale \div 20 <= single.currentZoom /\ single.currentZoom <= 5 * Scale

\* --------------------------------------------------- claims about the guide radii

\* C7: for 0 < r0 <= rf, generateGuideRadii(r0, rf) is strictly ascending,
\* starts at r0 and ends within 1% of rf.
C7_GuideRadiiAscendToFinal ==
  (guide.pc = "done" /\ 0 < guide.initialRadius /\ guide.initialRadius <= guide.finalRadius) =>
    /\ \A i \in 1..(Len(guide.radii) - 1) : guide.radii[i] < guide.radii[i + 1]
    /\ guide.radii[1] = guide.initialRadius
    /\ Abs(guide.radii[Len(guide.radii)] - guide.finalRadius) * 100 <= guide.finalRadius

\* --------------------------------------------------- claims about the solvers

\* C4: findInitialRadiusForPathLength and findThetaForPathLength terminate
\* within a bounded number of iterations for every target (17 and 21: the
\* interval is halved by each iteration that does not return), and the
\* estimate returned lies inside the initial search interval.
C4_SolversBoundedInInterval ==
  solver.pc # "idle" =>
    /\ solver.iter <= (IF solver.kind = "radius" THEN 17 ELSE 21)
    /\ solver.pc = "loop" =>
         (solver.high - solver.low - 1) * 2^solver.iter <= solver.high0 - solver.low0
    /\ solver.pc = "done" =>
         solver.low0 <= solver.result /\ solver.result <= solver.high0

\* A call with a target no radius of the interval reaches has left its loop
\* after 17 iterations.
C4_Witness ==
  /\ solver.pc = "done" /\ solver.kind = "radius"
  /\ solver.from = 0 /\ solver.iter = 17

RoundTripDone == solver.pc = "done" /\ solver.kind = "radius" /\ solver.from > 0

\* C5 (as stated): for every r0 of the radius range and every turn count,
\* findInitialRadiusForPathLength(calculateArcLength(r0, turns 2 pi), turns)
\* returns r with |r - r0| <= 1e-3 r0.
C5_RoundTripRelative ==
  RoundTripDone => Abs(solver.result - solver.from) * 1000 <= solver.from

\* C5 (amended): the radius returned gives a path length within the 0.1 mm
\* tolerance of the target, or lies within the 0.001 mm loop bound of r0; it is
\* within 1e-3 r0 of r0 when the path is at least 100 mm long and r0 at least 1 mm.
C5_RoundTripWithinTolerance ==
  RoundTripDone =>
    /\ \/ Abs(calculateArcLengthMain(solver.result, solver.maxTheta) - solver.target) < Tolerance
       \/ Abs(solver.result - solver.from) <= SolverThreshold("radius")
    /\ (solver.target >= 100 * MLU /\ solver.from >= MLU) =>
          Abs(solver.result - solver.from) * 1000 <= solver.from

\* The default spiral of main.ts (15 mm, 7.5 turns) has made the round trip.
C5_Witness ==
  /\ RoundTripDone
  /\ solver.from = 15 * MLU /\ solver.turns = (15 * CU) \div 2
  /\ solver.result # solver.from

\* ------------------------------------------------ claims about the application

\* C1: every operation that changes the configuration (form input, paper-size
\* selection, reset) is followed by exactly one redraw, made with the new
\* configuration: the step paints the canvas once and leaves the draw result of
\* the configuration it stored.
C1_RedrawFollowsConfigChange ==
  [][state'.config # state.config =>
       /\ canvas'.paints = canvas.paints + 1
       /\ hung' \/ state'.drawResult = drawSpiral(state'.config).result]_vars

\* C2: the stored configuration always has paperWidth, paperHeight, turns,
\* lineWidth and dpi strictly positive, and turns between 0.5 and 20.
C2_ConfigWithinRanges ==
  /\ state.config.paperWidth > 0
  /\ state.config.paperHeight > 0
  /\ state.config.lineWidth > 0
  /\ state.config.dpi > 0
  /\ state.config.turns >= CU \div 2
  /\ state.config.turns <= 20 * CU

====
